---- MODULE Spec2Model ----
(***************************************************************************)
(* SoundSwitch: a model of the two programs of the repository.             *)
(*                                                                         *)
(*   src/app.py      DragDropApp: device labels dragged between the        *)
(*                   Available frame, the Outputs bucket and the four sync *)
(*                   buckets; the PipeWire port links are kept up with      *)
(*                   the assignments (specification Spec).                  *)
(*   src/testapp.py  MainWindow: application streams moved between sinks   *)
(*                   by rules and by hand (specification SpecRouting).      *)
(***************************************************************************)
EXTENDS Integers, Sequences, FiniteSets, TLC

\* ------------------------------------------------------------------------
\* Bounds of the model
\* ------------------------------------------------------------------------

\* How many handler invocations of a run may meet a failing control-plane call.
MaxFaults == 1

\* How many rules the rule list holds at most.
MaxRules == 2

\* How many times the loopbacks of the bucket sinks are set up in a run.
MaxSetups == 3


\* ------------------------------------------------------------------------
\* State
\* ------------------------------------------------------------------------

VARIABLES
    live,               \* audio server: the nodes that exist
    links,              \* audio server: the port links, << output key, input key >>
    name_width,         \* per device, the rendered width of its name in pixels
    device_ports,       \* PipeWirePoller._device_ports: the nodes of the last snapshot
    active_ids,         \* PipeWirePoller._active_ids: the port ids seen by the last poll
    heard,              \* per port id, what a listener of stream_added / stream_removed heard last
    label_locations,    \* DragDropApp._label_locations
    label_map,          \* DragDropApp._label_map: the devices that have a label
    label_hidden,       \* the labels whose _hidden flag is set
    hidden_labels,      \* DragDropApp._hidden_labels
    bucket_labels,      \* per bucket, its DraggableLabels in layout order
    source_frame,       \* the labels in the AvailableItemsFrame
    sync_metadata,      \* per bucket, Bucket.sync_metadata
    bucket_enabled,     \* the buckets whose isEnabled() is true
    context_menu_open,  \* DragDropApp._context_menu_open
    state_file,         \* the content of bucket_state.json
    ops,                \* the control-plane calls of the last handler, in order
    planned,            \* when a call of the last handler failed: its calls had none failed
    cycles,             \* how many refresh cycles the last handler ran
    last_write,         \* whether the last handler wrote bucket_state.json, and what
    last_handler,       \* the handler that ran last
    rerun,              \* the last refresh followed a clean refresh of the same snapshot
    faults              \* handler invocations that met a failing call

appVars == << live, links, name_width, device_ports, active_ids, heard,
              label_locations, label_map, label_hidden, hidden_labels,
              bucket_labels, source_frame, sync_metadata, bucket_enabled,
              context_menu_open, state_file, ops, planned, cycles,
              last_write, last_handler, rerun, faults >>

\* src/testapp.py
VARIABLES
    sink_inputs,        \* audio server: stream index -> index of the sink it plays on
    rules,              \* MainWindow.state['rules']
    manual_overrides,   \* MainWindow.state['manual_overrides']: stream index -> sink name
    last_snapshot,      \* MainWindow._last_snapshot: << >> for None, << snapshot >> otherwise
    hidden_streams,     \* MainWindow.hidden_streams
    devices_list,       \* the stream indices listed in the Application Streams panel
    moves,              \* the move-sink-input calls of the last handler, in order
    seen,               \* what the last apply_routing_rules pass fetched
    last_action,        \* the MainWindow handler that ran last
    pactl_faults,       \* handler invocations that met a failing pactl call
    routing_file,       \* the content of routing_state.json
    dialog,             \* the handler that waits in run_pactl's message box, if any
    in_flight           \* the most refresh cycles in flight at once during the last step

routeVars == << sink_inputs, rules, manual_overrides, last_snapshot, hidden_streams,
                devices_list, moves, seen, last_action, pactl_faults,
                routing_file, dialog, in_flight >>

\* The start of either program: the bucket sinks are made sure of
VARIABLES
    server_sinks,       \* audio server: the names of its sinks
    ensure              \* the ensure step that ran last: the program, whether its
                        \* listing succeeded, its load-module calls in order

ensureVars == << server_sinks, ensure >>

\* MainWindow (src/testapp.py): the loopbacks of the bucket sinks
VARIABLES
    modules,            \* audio server: its loaded module-loopback modules
    next_module,        \* audio server: the index it gives to the next module
    server_default,     \* audio server: its default sink
    loop_state,         \* MainWindow.state: 'default_sink' and 'loopbacks'
    loop_file,          \* routing_state.json: the same two keys
    loop_last           \* the handler that ran last, the sink the user selected
                        \* last, the failed pactl calls so far

loopVars == << modules, next_module, server_default, loop_state, loop_file, loop_last >>

vars == << appVars, routeVars, ensureVars, loopVars >>

\* ------------------------------------------------------------------------
\* Program constants (src/app.py)
\* ------------------------------------------------------------------------

\* DragDropApp.SYNC_DEVICES: bucket name -> name of its virtual sink (the same).
SYNC_DEVICES == {"Game", "Chat", "Media", "Aux"}

\* bucket_names in DragDropApp.__init__, in layout order.
bucket_names == <<"Outputs", "Game", "Chat", "Media", "Aux">>

\* DraggableLabel.setFixedSize(180, 40)
LabelWidth == 180

\* elidedText(..., self.width() - 10)
ElideMargin == 10

\* ------------------------------------------------------------------------
\* The audio server of the model: nodes and their ports
\* ------------------------------------------------------------------------

\* The bucket sinks that exist at some time in this audio server; Media and
\* Aux are never created in it.
SinkNodes == {"Game", "Chat"}

\* The devices (non-bucket nodes) of this audio server.
DeviceNodes == {"Headset", "Firefox"}

Nodes == SinkNodes \cup DeviceNodes

\* The nodes that come and go while the program runs; the others stay.
DynamicNodes == {"Chat"}

\* The order in which pw-link lists the nodes.
NodeOrder == <<"Game", "Chat", "Headset", "Firefox">>

\* A port name is the sequence of its '_'-separated tokens:
\* "playback_FL" is <<"playback", "FL">>.
Port(prefix, chan, type) == [port |-> <<prefix, chan>>, type |-> type]

\* The ports of a node, in listing order (fixed while the node lives).
PortsOf(n) ==
    CASE n \in SinkNodes ->
            << Port("playback", "FL", "input"), Port("playback", "FR", "input"),
               Port("monitor", "FL", "output"), Port("monitor", "FR", "output") >>
      [] n = "Headset" ->
            << Port("playback", "FL", "input"), Port("playback", "FR", "input"),
               Port("monitor", "FL", "output") >>
      [] n = "Firefox" ->
            << Port("output", "FL", "output") >>
      [] OTHER -> << >>

\* The rendered widths, in pixels, a device name has in this model: one that
\* fits a label and one that does not.
NameWidths == { 52, 236 }

RECURSIVE Flatten(_)
Flatten(ss) == IF ss = << >> THEN << >> ELSE Head(ss) \o Flatten(Tail(ss))

Range(s) == { s[i] : i \in 1..Len(s) }

\* f"{device}:{port}"
Key(device, port) == << device, port >>

\* ------------------------------------------------------------------------
\* Port-name helpers of relink_outputs_to_syncs / link_item_to_sync_bucket
\* ------------------------------------------------------------------------

\* port.split('_')[-1] if '_' in port else port
SuffixWrong(port) == Len(port)
Suffix(port) == port[Len(port)]

\* p.get('port', '').startswith(prefix + '_')
StartsWithAny(port, prefix) == Len(port) >= 2
StartsWith(port, prefix) == Len(port) >= 2 /\ port[1] = prefix

\* [p for p in ports if p.get('type') == type and p.get('port','').startswith(prefix_)]
PortsWith(ports, type, prefix) ==
    SelectSeq(ports, LAMBDA p : p.type = type /\ StartsWith(p.port, prefix))

\* QFontMetrics.elidedText(full_name, ElideRight, width - 10): the name when it
\* fits, a cut name ending in an ellipsis otherwise.  QLabel.text() returns it.
Elided(name) == CASE name = "Headset" -> "Head..."
                  [] name = "Firefox" -> "Fire..."
                  [] OTHER -> "..."
elidedText(name, width) ==
    IF width <= LabelWidth - ElideMargin THEN name ELSE Elided(name)

\* DraggableLabel.get_device_name(): full_name
get_device_name(label) == label

\* label.text(): the text set by _update_elided_text
text(label) == elidedText(label, name_width[label])

\* ------------------------------------------------------------------------
\* The control plane: link listing, connect, disconnect
\* ------------------------------------------------------------------------

\* Every port key of the model's nodes, in listing order.
AllPortKeys ==
    Flatten([ i \in 1..Len(NodeOrder) |->
        [ j \in 1..Len(PortsOf(NodeOrder[i])) |->
            Key(NodeOrder[i], PortsOf(NodeOrder[i])[j].port) ] ])

\* link.list_outputs() + link.list_inputs(): port_lookup holds a key exactly
\* when the port is live.
port_lookup(liveNow) ==
    UNION { { Key(n, p.port) : p \in Range(PortsOf(n)) } : n \in liveNow }

\* The text `pw-link -l` prints for a link set: per port that has links, a
\* header line at column 0 and one indented line per link, "|->" under an
\* output port and "|<-" under an input port.
PortBlock(k, arrow, peers) ==
    IF peers = << >> THEN << >>
    ELSE << [indent |-> FALSE, arrow |-> "", key |-> k] >> \o
         [ j \in 1..Len(peers) |-> [indent |-> TRUE, arrow |-> arrow, key |-> peers[j]] ]
OutPeers(k, lk) ==
    IF \A l \in lk : l[1] # k THEN << >>
    ELSE SelectSeq(AllPortKeys, LAMBDA d : << k, d >> \in lk)
InPeers(k, lk) ==
    IF \A l \in lk : l[2] # k THEN << >>
    ELSE SelectSeq(AllPortKeys, LAMBDA src : << src, k >> \in lk)
PwLinkList(lk) ==
    Flatten([ i \in 1..Len(AllPortKeys) |->
        PortBlock(AllPortKeys[i], "|->", OutPeers(AllPortKeys[i], lk)) \o
        PortBlock(AllPortKeys[i], "|<-", InPeers(AllPortKeys[i], lk)) ])

\* The parse loop shared by link_item_to_sync_bucket and
\* remove_output_links_for_label: a line that does not start with two spaces
\* sets current_src, a "|->" line under it yields the pair (current_src, dst).
NoSrc == << "", << >> >>
RECURSIVE ParseLinks(_, _)
ParseLinks(lines, current_src) ==
    IF lines = << >> THEN << >>
    ELSE LET line == Head(lines) IN
         IF ~line.indent THEN ParseLinks(Tail(lines), line.key)
         ELSE IF line.arrow = "|->" /\ current_src # NoSrc
              THEN << << current_src, line.key >> >> \o ParseLinks(Tail(lines), current_src)
              ELSE ParseLinks(Tail(lines), current_src)

\* One control-plane call and its outcome; `fail` is the set of calls that
\* fail in this handler invocation.
Call(op, src, dst) == [op |-> op, src |-> src, dst |-> dst]
ListCall == Call("list", NoSrc, NoSrc)

\* The state an executor threads through a handler: the server's links and
\* the calls issued so far, each with its outcome.
Issue(st, op, src, dst, fail) ==
    LET ok == Call(op, src, dst) \notin fail IN
    [ links |-> IF ~ok THEN st.links
                ELSE IF op = "connect" THEN st.links \cup { << src, dst >> }
                ELSE IF op = "disconnect" THEN st.links \ { << src, dst >> }
                ELSE st.links,
      ops |-> Append(st.ops, [op |-> op, src |-> src, dst |-> dst, ok |-> ok]) ]

\* out_port.connect(in_port) for each pair of a list, in order; an exception
\* of one connect is caught and the loop goes on.
RECURSIVE ConnectAllAbort(_, _, _)
ConnectAllAbort(st, pairs, fail) ==
    IF pairs = << >> THEN st
    ELSE IF Call("connect", Head(pairs)[1], Head(pairs)[2]) \in fail
         THEN Issue(st, "connect", Head(pairs)[1], Head(pairs)[2], fail)
         ELSE ConnectAllAbort(Issue(st, "connect", Head(pairs)[1], Head(pairs)[2], fail),
                              Tail(pairs), fail)
RECURSIVE ConnectAll(_, _, _)
ConnectAll(st, pairs, fail) ==
    IF pairs = << >> THEN st
    ELSE ConnectAll(Issue(st, "connect", Head(pairs)[1], Head(pairs)[2], fail), Tail(pairs), fail)

\* subprocess.run(["pw-link", "-d", src, dst]) for each pair of a list, in order.
RECURSIVE DisconnectAll(_, _, _)
DisconnectAll(st, pairs, fail) ==
    IF pairs = << >> THEN st
    ELSE DisconnectAll(Issue(st, "disconnect", Head(pairs)[1], Head(pairs)[2], fail), Tail(pairs), fail)

\* subprocess.check_output(["pw-link", "-l"]): the listing, "" when it fails.
ListLinks(st, fail) ==
    LET st1 == Issue(st, "list", NoSrc, NoSrc, fail) IN
    [ st |-> st1,
      pairs |-> IF ListCall \in fail THEN << >> ELSE ParseLinks(PwLinkList(st.links), NoSrc) ]

\* ------------------------------------------------------------------------
\* DragDropApp: the three link routines
\* ------------------------------------------------------------------------

\* bucket.sync_metadata is None (or empty)
None == << >>

\* Outputs bucket's labels, bucket's sync_metadata -> the (monitor, playback)
\* pairs relink_outputs_to_syncs connects, in the order of its loops:
\* bucket, label, monitor port, playback port.
RelinkPairs(bl, sm, liveNow) ==
    Flatten([ b \in 1..Len(bucket_names) |->
      LET sync_name == bucket_names[b]
          sync_ports == sm[sync_name]
          monitor_ports == PortsWith(sync_ports, "output", "monitor")
          labels == bl["Outputs"]
      IN IF sync_ports = None THEN << >> ELSE
         Flatten([ l \in 1..Len(labels) |->
           LET device_name == get_device_name(labels[l])
               playback_ports == PortsWith(PortsOf(labels[l]), "input", "playback")
           IN Flatten([ m \in 1..Len(monitor_ports) |->
                LET mon == monitor_ports[m]
                    mon_key == Key(sync_name, mon.port)
                IN Flatten([ q \in 1..Len(playback_ports) |->
                     LET pb == playback_ports[q]
                         pb_key == Key(device_name, pb.port)
                     IN IF Suffix(mon.port) # Suffix(pb.port) THEN << >>
                        ELSE IF mon_key \in port_lookup(liveNow) /\ pb_key \in port_lookup(liveNow)
                             THEN << << mon_key, pb_key >> >>
                             ELSE << >> ]) ]) ]) ])

relink_too_late(st, bl, sm, liveNow, fail) == st
relink_outputs_to_syncs(st, bl, sm, liveNow, fail) ==
    ConnectAll(st, RelinkPairs(bl, sm, liveNow), fail)

\* link_item_to_sync_bucket: the (output, playback) pairs of equal suffix, in
\* loop order; the keys are built from label.text().
SyncPairs(sync_name, sync_ports, label) ==
    LET device_name == text(label)
        playback_ports == PortsWith(sync_ports, "input", "playback")
        output_ports == PortsWith(PortsOf(label), "output", "output")
    IN Flatten([ o \in 1..Len(output_ports) |->
         Flatten([ q \in 1..Len(playback_ports) |->
           IF Suffix(output_ports[o].port) # Suffix(playback_ports[q].port) THEN << >>
           ELSE << << Key(device_name, output_ports[o].port),
                      Key(sync_name, playback_ports[q].port) >> >> ]) ])

desired_links(sync_name, sync_ports, label) == Range(SyncPairs(sync_name, sync_ports, label))

\* link_item_to_sync_bucket past the listing (lines 850-909): the listed links
\* out of the device's own output ports that are not desired are removed, then
\* every desired pair whose two ports are live is connected.
LinkListed(listed, sync_name, sync_ports, label, liveNow, fail) ==
    ConnectAll(
        DisconnectAll(listed.st,
            SelectSeq(listed.pairs,
                LAMBDA pr : /\ pr[1] \in { Key(text(label), p.port) :
                                             p \in Range(PortsWith(PortsOf(label), "output", "output")) }
                            /\ pr \notin desired_links(sync_name, sync_ports, label)),
            fail),
        SelectSeq(SyncPairs(sync_name, sync_ports, label),
            LAMBDA pr : pr[1] \in port_lookup(liveNow) /\ pr[2] \in port_lookup(liveNow)),
        fail)

link_item_to_sync_bucket(st, sync_name, label, sm, liveNow, fail) ==
    IF sm[sync_name] = None THEN st
    ELSE LinkListed(ListLinks(st, fail), sync_name, sm[sync_name], label, liveNow, fail)

\* remove_output_links_for_label, lines 919-934: the (monitor port of an
\* available sync bucket, playback port of the device) pairs.
links_of_no_bucket(label, sm) == {}
links_to_remove(label, sm) ==
    UNION { { << Key(b, mon.port), Key(get_device_name(label), pb.port) >> :
                mon \in Range(PortsWith(sm[b], "output", "monitor")),
                pb \in Range(PortsWith(PortsOf(label), "input", "playback")) } :
            b \in { x \in SYNC_DEVICES : sm[x] # None } }

\* remove_output_links_for_label past the listing: every listed pair that is
\* in links_to_remove is removed.
RemoveListed(listed, label, sm, fail) ==
    DisconnectAll(listed.st,
                  SelectSeq(listed.pairs, LAMBDA pr : pr \in links_to_remove(label, sm)), fail)

remove_output_links_for_label(st, label, sm, fail) ==
    RemoveListed(ListLinks(st, fail), label, sm, fail)

\* ------------------------------------------------------------------------
\* DragDropApp: the refresh
\* ------------------------------------------------------------------------

\* _label_locations has no entry for the device
NoEntry == "<no entry>"

Buckets == Range(bucket_names)

\* The widget tree and link state a handler works on.
Widgets ==
    [ links |-> links, label_map |-> label_map, label_hidden |-> label_hidden,
      hidden_labels |-> hidden_labels, bucket_labels |-> bucket_labels,
      source_frame |-> source_frame, sync_metadata |-> sync_metadata,
      bucket_enabled |-> bucket_enabled, ops |-> << >> ]

\* layout.removeWidget(label) / label.setParent(None) on whatever holds it
UnparentNot(bl, d) == bl
Unparent(bl, d) == [ b \in DOMAIN bl |-> SelectSeq(bl[b], LAMBDA x : x # d) ]

\* bucket._layout.insertWidget(bucket._layout.count() - 1, label): the label
\* leaves the layout that held it and becomes the bucket's last label.
InsertLabel(bl, b, d) == [ Unparent(bl, d) EXCEPT ![b] = Append(@, d) ]

\* _label_locations.get(device, 'available')
LocationOf(loc, d) == IF d \notin DOMAIN loc \/ loc[d] = NoEntry THEN "available" ELSE loc[d]

\* device in self.SYNC_DEVICES.values() (lines 644, 660, 693)
IsNoSyncDevice(device) == FALSE
IsSyncDevice(device) == device \in SYNC_DEVICES

\* device_ports.items() in insertion order, sync devices skipped
SnapshotDevices(dp) == SelectSeq(NodeOrder, LAMBDA n : n \in dp /\ ~IsSyncDevice(n))

\* bucket.sync_metadata = ports if ports else None
SyncMetadataStale(dp, b) == PortsOf(b)
SyncMetadataFor(dp, b) == IF b \in dp THEN PortsOf(b) ELSE None

\* _refresh_pipewire, lines 691-738: one device's label is put where
\* _label_locations says.
PlaceLabel(w, loc, d) ==
    LET location == LocationOf(loc, d) IN
    IF location = "hidden" THEN
        [ w EXCEPT !.label_hidden = @ \cup {d}, !.hidden_labels = @ \cup {d},
                   !.bucket_labels = Unparent(@, d), !.source_frame = @ \ {d} ]
    ELSE IF location = "available" THEN
        [ w EXCEPT !.label_hidden = @ \ {d}, !.hidden_labels = @ \ {d},
                   !.bucket_labels = Unparent(@, d), !.source_frame = @ \cup {d} ]
    ELSE IF location \in Buckets /\ d \notin Range(w.bucket_labels[location]) THEN
        [ w EXCEPT !.label_hidden = @ \ {d},
                   !.bucket_labels = InsertLabel(@, location, d), !.source_frame = @ \ {d} ]
    ELSE [ w EXCEPT !.label_hidden = @ \ {d} ]

RECURSIVE PlaceAll(_, _, _)
PlaceAll(w, loc, devices) ==
    IF devices = << >> THEN w ELSE PlaceAll(PlaceLabel(w, loc, Head(devices)), loc, Tail(devices))

RECURSIVE RemoveOutputLinksAll(_, _, _, _)
RemoveOutputLinksAll(st, labels, sm, fail) ==
    IF labels = << >> THEN st
    ELSE RemoveOutputLinksAll(remove_output_links_for_label(st, Head(labels), sm, fail),
                              Tail(labels), sm, fail)

RECURSIVE LinkItemsAll(_, _, _, _, _)
LinkItemsAll(st, items, sm, liveNow, fail) ==
    IF items = << >> THEN st
    ELSE LinkItemsAll(link_item_to_sync_bucket(st, Head(items)[1], Head(items)[2], sm, liveNow, fail),
                      Tail(items), sm, liveNow, fail)

\* _refresh_pipewire, lines 622-638: the devices recorded in Outputs whose
\* label is not in the Outputs bucket any more lose their Outputs links.
RemovedOutputs(w, loc, fail) ==
    RemoveOutputLinksAll([links |-> w.links, ops |-> << >>],
        SelectSeq(NodeOrder,
            LAMBDA n : /\ n \in DOMAIN loc
                       /\ loc[n] = "Outputs"
                       /\ n \notin Range(w.bucket_labels["Outputs"])
                       /\ n \in w.label_map),
        w.sync_metadata, fail)

\* lines 641-668: the labels of the devices that left the snapshot
Gone(w, dp) == { d \in w.label_map : d \notin dp /\ ~IsSyncDevice(d) }

\* lines 641-690: labels of gone devices are deleted, labels of new devices
\* created, every bucket gets its sync metadata and availability, and the
\* sync buckets and the Available frame are emptied.
Rebuild(w, dp) ==
    [ w EXCEPT
        !.label_map = (@ \ Gone(w, dp)) \cup { d \in dp : ~IsSyncDevice(d) },
        !.label_hidden = @ \ Gone(w, dp),
        !.hidden_labels = @ \ Gone(w, dp),
        !.source_frame = {},
        !.sync_metadata = [ b \in Buckets |->
                              IF b \in SYNC_DEVICES THEN SyncMetadataFor(dp, b) ELSE None ],
        !.bucket_enabled = { b \in Buckets : b \notin SYNC_DEVICES \/ SyncMetadataFor(dp, b) # None },
        !.bucket_labels = [ b \in Buckets |->
                              IF b \in SYNC_DEVICES THEN << >>
                              ELSE SelectSeq(w.bucket_labels[b], LAMBDA x : x \notin Gone(w, dp)) ] ]

\* lines 743-748: (bucket, label) for every label of every sync bucket
SyncItems(bl) ==
    Flatten([ b \in 1..Len(bucket_names) |->
        IF bucket_names[b] \notin SYNC_DEVICES THEN << >>
        ELSE [ i \in 1..Len(bl[bucket_names[b]]) |-> << bucket_names[b], bl[bucket_names[b]][i] >> ] ])

WithLinks(w, st) == [ w EXCEPT !.links = st.links, !.ops = st.ops ]

\* lines 739-748: relink_outputs_to_syncs, then link_item_to_sync_bucket for
\* every label of every sync bucket.
Relink(w, st, liveNow, fail) ==
    WithLinks(w,
        LinkItemsAll(relink_outputs_to_syncs(st, w.bucket_labels, w.sync_metadata, liveNow, fail),
                     SyncItems(w.bucket_labels), w.sync_metadata, liveNow, fail))

\* _refresh_pipewire past its guard: w is the state before, loc the
\* assignments, dp the snapshot, liveNow the server's nodes.
RefreshPipewire(w, loc, dp, liveNow, fail) ==
    Relink(PlaceAll(Rebuild(w, dp), loc, SnapshotDevices(dp)),
           RemovedOutputs(w, loc, fail), liveNow, fail)

\* ------------------------------------------------------------------------
\* DragDropApp: construction
\* ------------------------------------------------------------------------

\* _label_locations == {}: no device has an entry.
NoLocations == [ d \in DeviceNodes |-> NoEntry ]

\* What bucket_state.json holds: nothing (there is no file), text that is not
\* JSON, a JSON array, or a JSON object of assignments.
FileMissing == [kind |-> "missing", map |-> NoLocations]
FileCorrupt == [kind |-> "text", map |-> NoLocations]
FileArray == [kind |-> "array", map |-> NoLocations]

\* json.dump(self._label_locations, f): the file holds the object
json_dump(map) == [kind |-> "object", map |-> map]

\* json.load(f) on a file that parses: a dict for an object, a list for an array
json_load(file) ==
    [type |-> IF file.kind = "object" THEN "dict" ELSE "list", map |-> file.map]

\* _load_label_locations: {} when there is no file or json.load raises,
\* whatever json.load returns otherwise.
load_label_locations(file) ==
    IF file.kind \in { "missing", "text" }
    THEN [type |-> "dict", map |-> NoLocations]
    ELSE json_load(file)

\* _save_label_locations: the file is rewritten with the assignments.
save_skipped(file, map) == file
save_label_locations(file, map) == json_dump(map)

\* What a handler's write did to the file: "same" when the content written is
\* the content the file had.
WriteOf(before, after) == IF after = before THEN "same" ELSE "new"

\* The contents bucket_state.json may have at start: missing, not JSON, not
\* an object, or assignments written by an earlier run.
StateFiles ==
    { FileMissing, FileCorrupt, FileArray,
      json_dump([ d \in DeviceNodes |-> CASE d = "Headset" -> "Outputs"
                                          [] d = "Firefox" -> "Chat"
                                          [] OTHER -> "available" ]) }

\* _refresh_pipewire, line 623: self._label_locations.items() raises when the
\* loaded value is not a dict.
ItemsRaises(loaded) == loaded.type # "dict"

\* link.list_outputs(): the ids of the live output ports
OutputIds(liveNow) ==
    UNION { { Key(n, p.port) : p \in { q \in Range(PortsOf(n)) : q.type = "output" } } : n \in liveNow }

\* _poll_once, lines 121-128: the polled ids that are not keys of _active_ids
\* are added to it, with one stream_added each.
NewIds(active, current) == current \ active

\* _poll_once, lines 135-137: the keys of _active_ids (the new ones included)
\* that were not polled are deleted, with one stream_removed each.
LostIdsAll(active, current) == active
LostIds(active, current) == active \ current

\* The port ids a poll can return.
PortIds == OutputIds(Nodes)

\* What a listener connected to stream_added and stream_removed has heard last
\* for each port id, after the signals of one _poll_once (the added ones
\* first): "added", or "idle" when nothing or a stream_removed after a
\* stream_added; a second stream_added in a row and a stream_removed that
\* follows no stream_added are kept as such.
Heard(before, added, removed) ==
    [ k \in PortIds |->
        IF k \in added
        THEN IF before[k] # "idle" THEN "added twice"
             ELSE IF k \in removed THEN "idle" ELSE "added"
        ELSE IF k \in removed
             THEN IF before[k] = "added" THEN "idle" ELSE "removed unheard"
             ELSE before[k] ]

\* No signal was emitted yet.
NothingHeard == [ k \in PortIds |-> "idle" ]

\* The widget tree DragDropApp.__init__ builds before its first refresh.
FreshWidgets ==
    [ links |-> {}, label_map |-> {}, label_hidden |-> {}, hidden_labels |-> {},
      bucket_labels |-> [ b \in Buckets |-> << >> ], source_frame |-> {},
      sync_metadata |-> [ b \in Buckets |-> None ], bucket_enabled |-> Buckets,
      ops |-> << >> ]

AllOk(opseq) == \A i \in 1..Len(opseq) : opseq[i].ok

\* The failing calls a handler invocation may meet, given the calls it issues
\* when none fails: none, or (while the fault budget lasts) one of them.
FailChoices(opseq) ==
    { {} } \cup (IF faults < MaxFaults
                 THEN { { Call(o.op, o.src, o.dst) } : o \in Range(opseq) }
                 ELSE {})

Assign(r) ==
    /\ links' = r.links
    /\ label_map' = r.label_map
    /\ label_hidden' = r.label_hidden
    /\ hidden_labels' = r.hidden_labels
    /\ bucket_labels' = r.bucket_labels
    /\ source_frame' = r.source_frame
    /\ sync_metadata' = r.sync_metadata
    /\ bucket_enabled' = r.bucket_enabled
    /\ ops' = r.ops
    /\ faults' = IF AllOk(r.ops) THEN faults ELSE faults + 1

\* DragDropApp.__init__ ended by the exception of its first _refresh_pipewire:
\* the program is gone, the file is as it was.
Crashed(file) ==
    /\ last_handler = "crashed"
    /\ state_file = file
    /\ name_width = [ d \in DeviceNodes |-> LabelWidth - ElideMargin ]
    /\ live = {}
    /\ device_ports = {}
    /\ active_ids = {}
    /\ heard = NothingHeard
    /\ label_locations = NoLocations
    /\ links = {}
    /\ label_map = {}
    /\ label_hidden = {}
    /\ hidden_labels = {}
    /\ bucket_labels = [ b \in Buckets |-> << >> ]
    /\ source_frame = {}
    /\ sync_metadata = [ b \in Buckets |-> None ]
    /\ bucket_enabled = {}
    /\ ops = << >>
    /\ cycles = 0

\* DragDropApp.__init__ with the assignments `locations` loaded: the poller
\* has polled and snapshot once, and _refresh_pipewire runs.
Started(live0, widths, file, locations) ==
    /\ last_handler = "refresh"
    /\ state_file = file
    /\ name_width = widths
    /\ live = live0
    /\ device_ports = live0
    /\ active_ids = NewIds({}, OutputIds(live0))
    /\ heard = Heard(NothingHeard, NewIds({}, OutputIds(live0)), {})
    /\ label_locations = locations
    /\ cycles = 1
    /\ \E r \in { RefreshPipewire(FreshWidgets, locations, live0, live0, {}) } :
         /\ links = r.links
         /\ label_map = r.label_map
         /\ label_hidden = r.label_hidden
         /\ hidden_labels = r.hidden_labels
         /\ bucket_labels = r.bucket_labels
         /\ source_frame = r.source_frame
         /\ sync_metadata = r.sync_metadata
         /\ bucket_enabled = r.bucket_enabled
         /\ ops = r.ops

\* The rendered widths at start: every device name fits its label.
FittingWidths ==
    { w \in [ DeviceNodes -> NameWidths ] : \A d \in DeviceNodes : w[d] <= LabelWidth - ElideMargin }

\* The rendered widths at start: every device name is too long for its label.
ElidedWidths ==
    { w \in [ DeviceNodes -> NameWidths ] : \A d \in DeviceNodes : w[d] > LabelWidth - ElideMargin }

\* DragDropApp.__init__: the stored assignments are loaded and the first
\* _refresh_pipewire runs, or raises.  spent: the failing calls the run has
\* met already (none in a fresh run); Widths: the rendered widths of the names.
InitAppWith(spent, Widths) ==
    \E live0 \in { Nodes \ gone : gone \in SUBSET DynamicNodes }, file \in StateFiles,
       widths \in Widths :
    \E loaded \in { load_label_locations(file) } :
        /\ context_menu_open = FALSE
        /\ rerun = FALSE
        /\ faults = spent
        /\ planned = << >>
        /\ last_write = "no"
        /\ IF ItemsRaises(loaded)
           THEN Crashed(file)
           ELSE Started(live0, widths, file, loaded.map)

InitApp == InitAppWith(0, FittingWidths)

\* ------------------------------------------------------------------------
\* DragDropApp and PipeWirePoller: the handlers
\* ------------------------------------------------------------------------

\* DragDropApp runs (it was started and its start did not raise);
\* src/testapp.py does not.
AppRuns ==
    last_handler \notin { "crashed", "off" } /\ UNCHANGED << routeVars, ensureVars, loopVars >>

\* n more runs of _refresh_pipewire in a row on the same snapshot, from state
\* w: `runs` extended by the state after each run, each with the calls of its
\* run.
RECURSIVE RefreshTimes(_, _, _, _, _, _, _)
RefreshAgain(r, runs, loc, dp, liveNow, fail, n) ==
    RefreshTimes(Append(runs, r), r, loc, dp, liveNow, fail, n - 1)
RefreshTimes(runs, w, loc, dp, liveNow, fail, n) ==
    IF n = 0 THEN runs
    ELSE RefreshAgain(RefreshPipewire(w, loc, dp, liveNow, fail), runs, loc, dp, liveNow, fail, n)

\* The calls of a handler's runs, in order.
CallsOf(runs) == Flatten([ i \in 1..Len(runs) |-> runs[i].ops ])

\* n triggers of _refresh_pipewire on snapshot dp, one after the other: each
\* run is skipped while a context menu is open (lines 606-609).
Refresh(dp, n) ==
    /\ UNCHANGED << label_locations, context_menu_open, state_file >>
    /\ last_write' = "no"
    /\ IF context_menu_open
       THEN /\ ops' = << >>
            /\ planned' = << >>
            /\ cycles' = 0
            /\ last_handler' = "refresh_skipped"
            /\ rerun' = FALSE
            /\ UNCHANGED << links, label_map, label_hidden, hidden_labels, bucket_labels,
                            source_frame, sync_metadata, bucket_enabled, faults >>
       ELSE \E clean \in { RefreshTimes(<< >>, Widgets, label_locations, dp, live, {}, n) } :
            \E fail \in FailChoices(CallsOf(clean)) :
            \E runs \in (IF fail = {} THEN { clean }
                          ELSE { RefreshTimes(<< >>, Widgets, label_locations, dp, live, fail, n) }) :
                 /\ Assign(runs[n])
                 /\ planned' = (IF fail = {} THEN << >> ELSE clean[n].ops)
                 /\ cycles' = n
                 /\ last_handler' = "refresh"
                 /\ rerun' = IF n = 1
                             THEN last_handler = "refresh" /\ AllOk(ops) /\ dp = device_ports
                             ELSE AllOk(runs[n - 1].ops)

\* PipeWirePoller._update_app_name_map (2 s timer): the snapshot is replaced,
\* by an empty one when the query fails, and app_name_map_updated runs
\* _refresh_pipewire.
UpdateAppNameMap ==
    /\ AppRuns
    /\ \E ok \in { TRUE } \cup { x \in { FALSE } : faults < MaxFaults } :
         /\ device_ports' = (IF ok THEN live ELSE {})
         /\ Refresh(device_ports', 1)
    /\ UNCHANGED << live, name_width, active_ids, heard >>

\* PipeWirePoller._poll_once (1 s timer): one stream_added or stream_removed
\* signal per output port that came or went, and _on_port_event runs
\* _refresh_pipewire for each signal before _poll_once returns.
PollOnce ==
    /\ AppRuns
    /\ OutputIds(live) # active_ids
    /\ \E added \in { NewIds(active_ids, OutputIds(live)) } :
       \E removed \in { LostIds(active_ids \cup added, OutputIds(live)) } :
         /\ active_ids' = (active_ids \cup added) \ removed
         /\ heard' = Heard(heard, added, removed)
         /\ Refresh(device_ports, Cardinality(added) + Cardinality(removed))
    /\ UNCHANGED << live, name_width, device_ports >>

\* A handler that issues no control-plane call and runs no refresh cycle.
NoCalls ==
    /\ ops' = << >>
    /\ planned' = << >>
    /\ cycles' = 0
    /\ rerun' = FALSE

\* A label the user can grab: it sits in the Available frame or in a bucket.
Visible(d) ==
    /\ d \in label_map
    /\ d \in source_frame \/ \E b \in Buckets : d \in Range(bucket_labels[b])

\* No handler is running and no modal menu is up: the user can act.
Idle == ~context_menu_open


\* Bucket.dropEvent, lines 372-381: a drop on Outputs runs
\* relink_outputs_to_syncs, a drop on a sync bucket link_item_to_sync_bucket.
DropLinks(w, b, d, liveNow, fail) ==
    WithLinks(w,
        IF b = "Outputs"
        THEN relink_outputs_to_syncs([links |-> w.links, ops |-> << >>],
                                     w.bucket_labels, w.sync_metadata, liveNow, fail)
        ELSE link_item_to_sync_bucket([links |-> w.links, ops |-> << >>],
                                      b, d, w.sync_metadata, liveNow, fail))

\* Bucket.dropEvent, lines 330-332: a sync bucket that is not enabled ignores
\* the drop.
DropAlwaysTaken(b, enabled) == FALSE
DropIgnored(b, enabled) == b \in SYNC_DEVICES /\ b \notin enabled

\* Bucket.dropEvent: label d dropped on bucket b.
BucketDrop(b, d) ==
    /\ AppRuns
    /\ Idle
    /\ Visible(d)
    /\ UNCHANGED << live, name_width, device_ports, active_ids, heard,
                    context_menu_open >>
    /\ rerun' = FALSE
    /\ cycles' = 0
    /\ IF DropIgnored(b, bucket_enabled)
       THEN /\ ops' = << >>
            /\ planned' = << >>
            /\ last_write' = "no"
            /\ last_handler' = "drop_ignored"
            /\ UNCHANGED << links, label_locations, label_map, label_hidden, hidden_labels,
                            bucket_labels, source_frame, sync_metadata, bucket_enabled,
                            state_file, faults >>
       ELSE \E w \in { [ Widgets EXCEPT !.bucket_labels = InsertLabel(@, b, d),
                                         !.source_frame = @ \ {d} ] } :
            \E clean \in { DropLinks(w, b, d, live, {}) } :
            \E fail \in FailChoices(clean.ops) :
            \E r \in (IF fail = {} THEN { clean } ELSE { DropLinks(w, b, d, live, fail) }) :
                 /\ Assign(r)
                 /\ planned' = (IF fail = {} THEN << >> ELSE clean.ops)
                 /\ label_locations' = [ label_locations EXCEPT ![d] = b ]
                 /\ state_file' = save_label_locations(state_file, label_locations')
                 /\ last_write' = WriteOf(state_file, state_file')
                 /\ last_handler' = "drop"

\* AvailableItemsFrame.dropEvent, lines 489-494: a label that comes from
\* Outputs loses its Outputs links.
ReturnLinks(w, d, from, fail) ==
    WithLinks(w,
        IF from = "Outputs"
        THEN remove_output_links_for_label([links |-> w.links, ops |-> << >>],
                                           d, w.sync_metadata, fail)
        ELSE [links |-> w.links, ops |-> << >>])

\* AvailableItemsFrame.dropEvent: label d dropped back on the Available frame.
AvailableDrop(d) ==
    /\ AppRuns
    /\ Idle
    /\ Visible(d)
    /\ UNCHANGED << live, name_width, device_ports, active_ids, heard,
                    context_menu_open >>
    /\ rerun' = FALSE
    /\ cycles' = 0
    /\ \E w \in { [ Widgets EXCEPT !.bucket_labels = Unparent(@, d),
                                    !.source_frame = @ \cup {d} ] } :
       \E clean \in { ReturnLinks(w, d, label_locations[d], {}) } :
       \E fail \in FailChoices(clean.ops) :
       \E r \in (IF fail = {} THEN { clean } ELSE { ReturnLinks(w, d, label_locations[d], fail) }) :
            /\ Assign(r)
            /\ planned' = (IF fail = {} THEN << >> ELSE clean.ops)
            /\ label_locations' = [ label_locations EXCEPT ![d] = "available" ]
            /\ state_file' = save_label_locations(state_file, label_locations')
            /\ last_write' = WriteOf(state_file, state_file')
            /\ last_handler' = "return"

\* DraggableLabel.contextMenuEvent of label d up to menu.exec_(): the guard is
\* set and the menu's event loop runs.  While the menu is up no handler changes
\* the labels, so the state does not hold d: ContextMenuClose names it again.
ContextMenuOpen(d) ==
    /\ AppRuns
    /\ Idle
    /\ Visible(d)
    /\ context_menu_open' = TRUE
    /\ NoCalls
    /\ last_write' = "no"
    /\ last_handler' = "other"
    /\ UNCHANGED << live, links, name_width, device_ports, active_ids, heard,
                    label_locations, label_map, label_hidden, hidden_labels, bucket_labels,
                    source_frame, sync_metadata, bucket_enabled, state_file, faults >>

\* toggle_label_hidden on a label that is not hidden (lines 974-985)
HideLabel(d) ==
    /\ label_hidden' = label_hidden \cup {d}
    /\ hidden_labels' = hidden_labels \cup {d}
    /\ bucket_labels' = Unparent(bucket_labels, d)
    /\ source_frame' = source_frame \ {d}
    /\ label_locations' = [ label_locations EXCEPT ![d] = "hidden" ]
    /\ state_file' = save_label_locations(state_file, label_locations')
    /\ last_write' = WriteOf(state_file, state_file')
    /\ last_handler' = "hide"

\* toggle_label_hidden on a hidden label (lines 986-992)
UnhideLabel(d) ==
    /\ label_hidden' = label_hidden \ {d}
    /\ hidden_labels' = hidden_labels \ {d}
    /\ bucket_labels' = Unparent(bucket_labels, d)
    /\ source_frame' = source_frame \cup {d}
    /\ label_locations' = [ label_locations EXCEPT ![d] = "available" ]
    /\ state_file' = save_label_locations(state_file, label_locations')
    /\ last_write' = WriteOf(state_file, state_file')
    /\ last_handler' = "unhide"

\* DraggableLabel.contextMenuEvent of label d after menu.exec_() returns:
\* "Hide" was chosen or the menu was dismissed; the guard is cleared.
ContextMenuClose(hide, d) ==
    /\ AppRuns
    /\ context_menu_open
    /\ context_menu_open' = FALSE
    /\ NoCalls
    /\ IF hide
       THEN Visible(d) /\ HideLabel(d)
       ELSE /\ last_handler' = "other"
            /\ last_write' = "no"
            /\ UNCHANGED << label_locations, label_hidden, hidden_labels,
                            bucket_labels, source_frame, state_file >>
    /\ UNCHANGED << live, links, name_width, device_ports, active_ids, heard,
                    label_map, sync_metadata, bucket_enabled, faults >>

\* show_hidden_items_dialog, unhide_selected: a hidden label is unhidden.
Unhide(d) ==
    /\ AppRuns
    /\ Idle
    /\ d \in hidden_labels
    /\ IF d \in label_hidden
       THEN UnhideLabel(d)
       ELSE HideLabel(d)
    /\ NoCalls
    /\ UNCHANGED << live, links, name_width, device_ports, active_ids, heard,
                    label_map, sync_metadata, bucket_enabled, context_menu_open, faults >>

\* ------------------------------------------------------------------------
\* The audio server
\* ------------------------------------------------------------------------

EnvStep ==
    /\ NoCalls
    /\ last_write' = "no"
    /\ last_handler' = "other"
    /\ UNCHANGED << name_width, device_ports, active_ids, heard, label_locations,
                    label_map, label_hidden, hidden_labels, bucket_labels, source_frame,
                    sync_metadata, bucket_enabled, context_menu_open,
                    state_file, faults >>

\* A node (a bucket sink, a device, an application stream) appears.
NodeAppears(n) ==
    /\ AppRuns
    /\ n \notin live
    /\ EnvStep
    /\ live' = live \cup {n}
    /\ UNCHANGED links

\* A node goes away, and its links with it.
NodeDisappears(n) ==
    /\ AppRuns
    /\ n \in live
    /\ EnvStep
    /\ live' = live \ {n}
    /\ links' = { l \in links : l[1][1] # n /\ l[2][1] # n }

\* The handlers of DragDropApp and its audio server.
NextApp ==
    \/ UpdateAppNameMap
    \/ PollOnce
    \/ \E b \in Buckets, d \in DeviceNodes : BucketDrop(b, d)
    \/ \E d \in DeviceNodes : AvailableDrop(d)
    \/ \E d \in DeviceNodes : ContextMenuOpen(d)
    \/ \E hide \in BOOLEAN, d \in DeviceNodes : ContextMenuClose(hide, d)
    \/ \E d \in DeviceNodes : Unhide(d)
    \/ \E n \in DynamicNodes : NodeAppears(n)
    \/ \E n \in DynamicNodes : NodeDisappears(n)

\* ------------------------------------------------------------------------
\* MainWindow (src/testapp.py): constants and the audio server it talks to
\* ------------------------------------------------------------------------

\* CUSTOM_SINKS
CUSTOM_SINKS == <<"Game", "Media", "Chat", "Aux">>

\* The sinks `pactl list short sinks` prints, in order: the hardware sink and
\* the four custom sinks; a sink's index is its place in the listing.
SinkOrder == <<"Speakers", "Game", "Media", "Chat", "Aux">>

\* The sink a new stream starts on (the default sink).
DefaultSink == "Speakers"

\* A sink's index in the listing.
IndexOfSink(name) == CHOOSE i \in 1..Len(SinkOrder) : SinkOrder[i] = name

\* The stream indices of the model, in listing order, and their applications:
\* one application stream and one loopback stream of the audio server.
StreamOrder == <<"41", "42">>
StreamIds == Range(StreamOrder)
AppOf(id) == IF id = "41" THEN "Firefox" ELSE "pipewire"

\* What the user types and picks in the rule editor ("" is an empty field),
\* and the sink panels the user drops streams on.
RuleApps == { "", "firefox", "pipewire" }
RuleSinks == { "Game", "Aux" }
DropSinks == { "Game", "Aux" }

\* Python's None
PyNone == "<None>"

\* dict.get(key): None when the key is missing
Get(dict, key) == IF key \in DOMAIN dict THEN dict[key] ELSE PyNone

\* str.lower() on the names of the model
Lower(name) == CASE name = "Firefox" -> "firefox"
                 [] name = "PipeWire" -> "pipewire"
                 [] OTHER -> name

\* The pactl calls that can fail.
SinksCall == [cmd |-> "list-sinks", stream |-> "", sink |-> ""]
InputsCall == [cmd |-> "list-sink-inputs", stream |-> "", sink |-> ""]
MoveCall(id, sink) == [cmd |-> "move-sink-input", stream |-> id, sink |-> sink]

\* get_sinks(): [] when pactl fails (run_pactl returns '')
get_sinks(fail) ==
    IF SinksCall \in fail THEN << >>
    ELSE [ i \in 1..Len(SinkOrder) |-> [index |-> i, name |-> SinkOrder[i]] ]

\* get_sink_inputs(): one dict per live stream, with the keys pactl prints;
\* [] when pactl fails (run_pactl returns '')
SinkInputDicts(si, ids) ==
    [ k \in 1..Len(ids) |-> [index |-> ids[k], app_name |-> AppOf(ids[k]), sink |-> si[ids[k]]] ]
get_sink_inputs(si, fail) ==
    IF InputsCall \in fail THEN << >>
    ELSE SinkInputDicts(si, SelectSeq(StreamOrder, LAMBDA id : id \in DOMAIN si))

\* sink_index_to_name.get(sink_index, 'Unknown')
sink_name_unknown(sinks, sink_index) == "Unknown"
sink_name_of(sinks, sink_index) ==
    IF \E k \in 1..Len(sinks) : sinks[k].index = sink_index
    THEN sinks[CHOOSE k \in 1..Len(sinks) : sinks[k].index = sink_index].name
    ELSE "Unknown"

\* update_hidden_streams: the loopback streams, by application name
update_hidden_streams(inputs) ==
    { inputs[k].index : k \in { j \in 1..Len(inputs) :
                                  Lower(inputs[j].app_name) \in { "pipewire", "pulseaudio" } } }

\* ------------------------------------------------------------------------
\* MainWindow: rules, moves, refresh
\* ------------------------------------------------------------------------

\* run_pactl(['move-sink-input', id, sink]) issued for rule number `rule` (0:
\* by hand): it fails when pactl fails, and pactl fails for a stream that is
\* gone.  st is the server's streams and the moves issued so far.
RunMove(st, id, sink, rule, overrides, fail) ==
    [ sink_inputs |->
        IF MoveCall(id, sink) \notin fail /\ id \in DOMAIN st.sink_inputs
        THEN [ st.sink_inputs EXCEPT ![id] = IndexOfSink(sink) ]
        ELSE st.sink_inputs,
      moves |-> Append(st.moves,
        [ stream |-> id, sink |-> sink, rule |-> rule,
          at |-> IF id \in DOMAIN st.sink_inputs THEN SinkOrder[st.sink_inputs[id]] ELSE "gone",
          override |-> Get(overrides, id),
          ok |-> MoveCall(id, sink) \notin fail /\ id \in DOMAIN st.sink_inputs ] ) ]

\* apply_routing_rules, lines 493-503: one (rule, stream) pair of the loops
ApplyOne(st, rule, r, stream, sinks, hidden, overrides, fail) ==
    IF stream.index \in hidden THEN st
    ELSE IF stream.index \in DOMAIN overrides
            /\ overrides[stream.index] = Get(stream, "sink_name") THEN st
    ELSE IF /\ Lower(stream.app_name) = Lower(rule.app_name)
            /\ sink_name_of(sinks, stream.sink) # rule.sink
         THEN RunMove(st, stream.index, rule.sink, r, overrides, fail)
         ELSE st

\* apply_routing_rules, lines 491-503: for rule in rules: for stream in
\* sink_inputs, from pair i on (the pairs are counted rule by rule), until
\* the loops end or a move fails: run_pactl then opens its message box and the
\* handler waits in it.  `next` is 0 when the loops ended, the pair to go on
\* with otherwise.  hidden and overrides are read anew for every pair.
RECURSIVE Pass(_, _, _, _, _, _, _, _)
PassOn(st2, issued, i, rls, inputs, sinks, hidden, overrides, fail) ==
    IF Len(st2.moves) > issued /\ ~st2.moves[Len(st2.moves)].ok
    THEN [sink_inputs |-> st2.sink_inputs, moves |-> st2.moves, next |-> i + 1]
    ELSE Pass(st2, i + 1, rls, inputs, sinks, hidden, overrides, fail)
Pass(st, i, rls, inputs, sinks, hidden, overrides, fail) ==
    IF i > Len(rls) * Len(inputs)
    THEN [sink_inputs |-> st.sink_inputs, moves |-> st.moves, next |-> 0]
    ELSE PassOn(
            ApplyOne(st, rls[((i - 1) \div Len(inputs)) + 1], ((i - 1) \div Len(inputs)) + 1,
                     inputs[((i - 1) % Len(inputs)) + 1], sinks, hidden, overrides, fail),
            Len(st.moves), i, rls, inputs, sinks, hidden, overrides, fail)

\* apply_routing_rules: sinks and streams are fetched once (a failing
\* listing opens the message box before the loops), then every rule is applied
\* to every fetched stream.
apply_routing_rules(st, rls, overrides, fail) ==
    IF SinksCall \in fail \/ InputsCall \in fail
    THEN [sink_inputs |-> st.sink_inputs, moves |-> st.moves, next |-> 1]
    ELSE Pass(st, 1, rls, get_sink_inputs(st.sink_inputs, fail), get_sinks(fail),
              update_hidden_streams(get_sink_inputs(st.sink_inputs, fail)), overrides, fail)

\* What a pass fetched, and the streams that were hidden while it ran.
Fetched(si, fail) ==
    [ran |-> TRUE, sinks |-> get_sinks(fail), inputs |-> get_sink_inputs(si, fail),
     hidden |-> update_hidden_streams(get_sink_inputs(si, fail))]
NoPass == [ran |-> FALSE, sinks |-> << >>, inputs |-> << >>, hidden |-> {}]

\* refresh_devices_and_sinks, lines 554-558: the overrides of the streams that
\* are not among the fetched ones are dropped.
LiveOverrides(overrides, inputs) ==
    [ id \in DOMAIN overrides \cap { inputs[k].index : k \in 1..Len(inputs) } |-> overrides[id] ]

\* lines 563-564: the streams listed in the Application Streams panel
ListedStreams(inputs, hidden) == { inputs[k].index : k \in 1..Len(inputs) } \ hidden

\* refresh_devices_and_sinks(force=True), from server state st (streams and the
\* moves of this handler so far).
refresh_devices_and_sinks(st, rls, overrides, fail) ==
    [ after |-> apply_routing_rules(st, rls,
                    LiveOverrides(overrides, get_sink_inputs(st.sink_inputs, fail)), fail),
      manual_overrides |-> LiveOverrides(overrides, get_sink_inputs(st.sink_inputs, fail)),
      hidden_streams |-> update_hidden_streams(get_sink_inputs(st.sink_inputs, fail)),
      devices_list |-> ListedStreams(get_sink_inputs(st.sink_inputs, fail),
                                     update_hidden_streams(get_sink_inputs(st.sink_inputs, fail))),
      seen |-> Fetched(st.sink_inputs, fail) ]

\* ------------------------------------------------------------------------
\* MainWindow: the persisted state (routing_state.json)
\* ------------------------------------------------------------------------

\* What routing_state.json holds: nothing (there is no file), text that is not
\* JSON, a JSON array, or the JSON object of self.state.
RoutingFileMissing == [kind |-> "missing", rules |-> << >>, manual_overrides |-> << >>]
RoutingFileCorrupt == [kind |-> "text", rules |-> << >>, manual_overrides |-> << >>]
RoutingFileArray == [kind |-> "array", rules |-> << >>, manual_overrides |-> << >>]

\* json.dump(self.state, f, indent=2)
json_dump_state(rls, overrides) ==
    [kind |-> "object", rules |-> rls, manual_overrides |-> overrides]

\* load_state: {} when there is no file or json.load raises, whatever
\* json.load returns otherwise.
load_state(file) ==
    IF file.kind \in { "missing", "text" }
    THEN [type |-> "dict", keys |-> {}, rules |-> << >>, manual_overrides |-> << >>]
    ELSE IF file.kind = "object"
    THEN [type |-> "dict", keys |-> { "rules", "manual_overrides" },
          rules |-> file.rules, manual_overrides |-> file.manual_overrides]
    ELSE [type |-> "list", keys |-> {}, rules |-> << >>, manual_overrides |-> << >>]

\* save_state: the file is rewritten with self.state.
save_state(file, rls, overrides) == json_dump_state(rls, overrides)

\* MainWindow.__init__, lines 158-161: the built-in rule list
DefaultRules == << [app_name |-> "Firefox", sink |-> "Aux"] >>

\* The contents routing_state.json may have at start.
RoutingFiles ==
    { RoutingFileMissing, RoutingFileCorrupt, RoutingFileArray, json_dump_state(<< >>, << >>) }

\* MainWindow.__init__, line 159: self.state['rules'] = [...] raises when the
\* loaded value is a list.
SetItemRaises(loaded) == loaded.type # "dict"

\* The pactl command on the machine: installed, or not on the PATH.
PactlInstalls == { "installed", "missing" }

\* run_pactl, lines 326-331: subprocess.run raises FileNotFoundError when the
\* command is missing, and the except clause names CalledProcessError only.
RunRaises(pactl) == pactl = "missing"

\* ------------------------------------------------------------------------
\* MainWindow: the handlers
\* ------------------------------------------------------------------------

\* No handler waits in a message box.
NoDialog ==
    [open |-> FALSE, handler |-> "", cycle |-> FALSE, next |-> 0, moves |-> << >>,
     inputs |-> << >>, sinks |-> << >>, hidden |-> {}, snapshot |-> << >>]

\* A handler waits in the message box of a failed pactl call, inside
\* apply_routing_rules at pair `next`; cycle: inside refresh_devices_and_sinks.
Waiting(handler, cycle, after, fetched, snapshot) ==
    [open |-> TRUE, handler |-> handler, cycle |-> cycle, next |-> after.next,
     moves |-> after.moves, inputs |-> fetched.inputs, sinks |-> fetched.sinks,
     hidden |-> fetched.hidden, snapshot |-> snapshot]

\* The refresh cycles that wait in a message box.
Suspended == IF dialog.open /\ dialog.cycle THEN 1 ELSE 0

\* The failing calls a handler invocation may meet, given the moves it issues
\* when none fails: none, or (while the fault budget lasts) the sink listing,
\* the stream listing or one of the moves.
PactlFailChoices(mvs) ==
    { {} } \cup (IF pactl_faults < MaxFaults
                 THEN { { SinksCall }, { InputsCall } }
                          \cup { { MoveCall(m.stream, m.sink) } : m \in Range(mvs) }
                 ELSE {})

\* The end of a handler that ran refresh_devices_and_sinks(force=True) with
\* result r: the panels are filled when the pass ended, and the handler waits
\* in the message box otherwise.  conditional_refresh then stores its snapshot.
AssignRefresh(r, fail, rls, handler, snapshot) ==
    /\ sink_inputs' = r.after.sink_inputs
    /\ moves' = r.after.moves
    /\ manual_overrides' = r.manual_overrides
    /\ hidden_streams' = r.hidden_streams
    /\ routing_file' = save_state(routing_file, rls, r.manual_overrides)
    /\ pactl_faults' = IF fail = {} THEN pactl_faults ELSE pactl_faults + 1
    /\ in_flight' = 1
    /\ IF r.after.next = 0
       THEN /\ devices_list' = r.devices_list
            /\ seen' = r.seen
            /\ dialog' = NoDialog
            /\ last_snapshot' = (IF handler = "tick" THEN snapshot ELSE last_snapshot)
       ELSE /\ devices_list' = {}
            /\ seen' = NoPass
            /\ dialog' = Waiting(handler, TRUE, r.after, r.seen, snapshot)
            /\ UNCHANGED last_snapshot

\* A handler that ends in refresh_devices_and_sinks(force=True), from server
\* state st with overrides ov.
RefreshFrom(st, ov, handler, snapshot) ==
    \E clean \in { refresh_devices_and_sinks(st, rules, ov, {}) } :
    \E fail \in PactlFailChoices(clean.after.moves) :
    \E r \in (IF fail = {} THEN { clean } ELSE { refresh_devices_and_sinks(st, rules, ov, fail) }) :
        AssignRefresh(r, fail, rules, handler, snapshot)

\* MainWindow.__init__ ended by an exception, the TypeError of line 161
\* (how = "crashed") or the FileNotFoundError of its first run_pactl, in
\* ensure_custom_sinks (how = "raised"): the program is gone, the file is as
\* it was.
RoutingCrashed(file, how) ==
    /\ last_action = how
    /\ routing_file = file
    /\ rules = << >>
    /\ sink_inputs = << >>
    /\ moves = << >>
    /\ manual_overrides = << >>
    /\ hidden_streams = {}
    /\ devices_list = {}
    /\ seen = NoPass
    /\ in_flight = 0

\* MainWindow.__init__ with the state loaded: the missing keys are filled in
\* and refresh_devices_and_sinks(force=True) runs, which saves the state.
RoutingStarted(alive, rules0, overrides0) ==
    \E r \in { refresh_devices_and_sinks(
                  [sink_inputs |-> [id \in alive |-> IndexOfSink(DefaultSink)], moves |-> << >>],
                  rules0, overrides0, {}) } :
        /\ last_action = "init"
        /\ rules = rules0
        /\ sink_inputs = r.after.sink_inputs
        /\ moves = r.after.moves
        /\ manual_overrides = r.manual_overrides
        /\ hidden_streams = r.hidden_streams
        /\ devices_list = r.devices_list
        /\ seen = r.seen
        /\ routing_file = save_state(RoutingFileMissing, rules0, r.manual_overrides)
        /\ in_flight = 1

\* MainWindow.__init__: the state file is loaded (without one, the rule list
\* is the built-in one), and refresh_devices_and_sinks(force=True) runs.
InitRouting ==
    \E alive \in SUBSET StreamIds, file \in RoutingFiles, pactl \in PactlInstalls :
    \E loaded \in { load_state(file) } :
        /\ last_snapshot = << >>
        /\ pactl_faults = 0
        /\ dialog = NoDialog
        /\ IF SetItemRaises(loaded)
           THEN RoutingCrashed(file, "crashed")
           ELSE IF RunRaises(pactl)
           THEN RoutingCrashed(file, "raised")
           ELSE RoutingStarted(alive,
                               IF "rules" \in loaded.keys THEN loaded.rules ELSE DefaultRules,
                               IF "manual_overrides" \in loaded.keys
                               THEN loaded.manual_overrides ELSE << >>)

\* MainWindow runs: it was started and its start did not raise.
RoutingRuns ==
    last_action \notin { "crashed", "raised", "hung", "off" }
      /\ UNCHANGED << ensureVars, loopVars >>

\* The program runs and no modal message box keeps the user from the window.
UserCanAct == RoutingRuns /\ ~dialog.open

\* conditional_refresh, line 215: snapshot != self._last_snapshot
AlwaysChanged(snapshot, last) == TRUE
SnapshotChanged(snapshot, last) == snapshot # last

\* conditional_refresh (2 s timer): the refresh runs when the snapshot of the
\* streams and their sinks differs from the last one.  The timer also fires
\* while a handler waits in a message box: the refresh then runs inside that
\* handler and meets no failing call.
ConditionalRefresh ==
    /\ RoutingRuns
    /\ last_action' = "tick"
    /\ IF ~SnapshotChanged(<< sink_inputs >>, last_snapshot)
       THEN /\ moves' = << >>
            /\ seen' = NoPass
            /\ in_flight' = Suspended
            /\ UNCHANGED << sink_inputs, manual_overrides, hidden_streams, devices_list,
                            pactl_faults, routing_file, dialog, last_snapshot >>
       ELSE IF dialog.open
       THEN \E r \in { refresh_devices_and_sinks([sink_inputs |-> sink_inputs, moves |-> << >>],
                                                 rules, manual_overrides, {}) } :
                /\ sink_inputs' = r.after.sink_inputs
                /\ moves' = r.after.moves
                /\ manual_overrides' = r.manual_overrides
                /\ hidden_streams' = r.hidden_streams
                /\ devices_list' = r.devices_list
                /\ seen' = r.seen
                /\ routing_file' = save_state(routing_file, rules, r.manual_overrides)
                /\ last_snapshot' = << sink_inputs >>
                /\ in_flight' = Suspended + 1
                /\ UNCHANGED << pactl_faults, dialog >>
       ELSE RefreshFrom([sink_inputs |-> sink_inputs, moves |-> << >>], manual_overrides,
                        "tick", << sink_inputs >>)
    /\ UNCHANGED << rules, appVars >>

\* conditional_refresh whose first pactl call (get_sinks, line 206) never
\* returns: subprocess.run is called without a timeout (line 327), so the
\* handler never ends and the event loop that runs it handles nothing more.
ConditionalRefreshHangs ==
    /\ RoutingRuns
    /\ pactl_faults < MaxFaults
    /\ pactl_faults' = pactl_faults + 1
    /\ last_action' = "hung"
    /\ moves' = << >>
    /\ seen' = NoPass
    /\ in_flight' = Suspended
    /\ UNCHANGED << sink_inputs, rules, manual_overrides, last_snapshot, hidden_streams,
                    devices_list, routing_file, dialog, appVars >>

\* The user closes the message box: run_pactl returns '' and the handler that
\* waited goes on with the streams and sinks it fetched before, up to its end
\* or to the next failing move (of a stream that is gone by now).  A refresh
\* then adds its streams to the panel, after those a refresh run in between
\* has put there.
DialogClose ==
    /\ RoutingRuns
    /\ dialog.open
    /\ last_action' = dialog.handler
    /\ in_flight' = Suspended
    /\ \E r \in { Pass([sink_inputs |-> sink_inputs, moves |-> dialog.moves], dialog.next,
                       rules, dialog.inputs, dialog.sinks, hidden_streams, manual_overrides, {}) } :
         /\ sink_inputs' = r.sink_inputs
         /\ moves' = r.moves
         /\ IF r.next = 0
            THEN /\ dialog' = NoDialog
                 /\ seen' = [ran |-> TRUE, sinks |-> dialog.sinks, inputs |-> dialog.inputs,
                             hidden |-> dialog.hidden \cup hidden_streams]
                 /\ devices_list' = (IF dialog.cycle
                                     THEN devices_list \cup
                                          ListedStreams(dialog.inputs, hidden_streams)
                                     ELSE devices_list)
                 /\ last_snapshot' = (IF dialog.handler = "tick"
                                      THEN dialog.snapshot ELSE last_snapshot)
            ELSE /\ dialog' = [ dialog EXCEPT !.next = r.next, !.moves = r.moves,
                                               !.hidden = dialog.hidden \cup hidden_streams ]
                 /\ seen' = NoPass
                 /\ UNCHANGED << devices_list, last_snapshot >>
    /\ UNCHANGED << rules, manual_overrides, hidden_streams, pactl_faults, routing_file, appVars >>

\* add_rule_from_ui: an empty application name is refused; otherwise the rule
\* is appended, the state saved and apply_routing_rules runs.
AddRuleFromUi(app_name, sink) ==
    /\ UserCanAct
    /\ Len(rules) < MaxRules
    /\ last_action' = "add_rule"
    /\ in_flight' = 0
    /\ IF app_name = ""
       THEN /\ moves' = << >>
            /\ seen' = NoPass
            /\ UNCHANGED << rules, sink_inputs, hidden_streams, pactl_faults, routing_file, dialog >>
       ELSE /\ rules' = Append(rules, [app_name |-> app_name, sink |-> sink])
            /\ routing_file' = save_state(routing_file, rules', manual_overrides)
            /\ \E clean \in { apply_routing_rules([sink_inputs |-> sink_inputs, moves |-> << >>],
                                                  rules', manual_overrides, {}) } :
               \E fail \in PactlFailChoices(clean.moves) :
               \E r \in (IF fail = {} THEN { clean }
                         ELSE { apply_routing_rules([sink_inputs |-> sink_inputs, moves |-> << >>],
                                                    rules', manual_overrides, fail) }) :
                    /\ sink_inputs' = r.sink_inputs
                    /\ moves' = r.moves
                    /\ hidden_streams' = update_hidden_streams(get_sink_inputs(sink_inputs, fail))
                    /\ pactl_faults' = IF fail = {} THEN pactl_faults ELSE pactl_faults + 1
                    /\ seen' = (IF r.next = 0 THEN Fetched(sink_inputs, fail) ELSE NoPass)
                    /\ dialog' = (IF r.next = 0 THEN NoDialog
                                  ELSE Waiting("add_rule", FALSE, r, Fetched(sink_inputs, fail), << >>))
    /\ UNCHANGED << manual_overrides, last_snapshot, devices_list, appVars >>

\* remove_selected_rule: the selected row is deleted and the state saved.
RemoveSelectedRule(row) ==
    /\ UserCanAct
    /\ row \in 1..Len(rules)
    /\ rules' = [ i \in 1..(Len(rules) - 1) |-> IF i < row THEN rules[i] ELSE rules[i + 1] ]
    /\ routing_file' = save_state(routing_file, rules', manual_overrides)
    /\ moves' = << >>
    /\ seen' = NoPass
    /\ last_action' = "remove_rule"
    /\ in_flight' = 0
    /\ UNCHANGED << sink_inputs, manual_overrides, last_snapshot, hidden_streams,
                    devices_list, pactl_faults, dialog, appVars >>

\* move_sink_input, lines 646-653: the move is issued and, as run_pactl
\* returns '' and never None when the call fails, the override is recorded
\* whatever the outcome.
MovedByHand(st, id, sink, overrides, fail) ==
    [ st |-> RunMove(st, id, sink, 0, overrides, fail),
      overrides |-> [ x \in DOMAIN overrides \cup {id} |->
                        IF x = id THEN sink ELSE overrides[x] ] ]

\* move_sink_input: a listed stream is dropped on a sink panel; the move is
\* issued, the override recorded and saved, and
\* refresh_devices_and_sinks(force=True) runs.  The message box of a failed
\* move by hand is closed before the timer fires again.
MoveSinkInput(id, sink) ==
    /\ UserCanAct
    /\ id \in devices_list
    /\ last_action' = "move"
    /\ \E none \in { MovedByHand([sink_inputs |-> sink_inputs, moves |-> << >>], id, sink,
                                  manual_overrides, {}) } :
       \E clean \in { refresh_devices_and_sinks(none.st, rules, none.overrides, {}) } :
       \E fail \in PactlFailChoices(clean.after.moves) :
       \E m \in { MovedByHand([sink_inputs |-> sink_inputs, moves |-> << >>], id, sink,
                               manual_overrides, fail) } :
       \E r \in (IF fail = {} THEN { clean }
                 ELSE { refresh_devices_and_sinks(m.st, rules, m.overrides, fail) }) :
            AssignRefresh(r, fail, rules, "move", << >>)
    /\ UNCHANGED << rules, appVars >>

\* reset_manual_override, from the context menu of a listed stream that has
\* an override.
ResetManualOverride(id) ==
    /\ UserCanAct
    /\ id \in devices_list
    /\ id \in DOMAIN manual_overrides
    /\ last_action' = "reset"
    /\ RefreshFrom([sink_inputs |-> sink_inputs, moves |-> << >>],
                   [ x \in DOMAIN manual_overrides \ {id} |-> manual_overrides[x] ],
                   "reset", << >>)
    /\ UNCHANGED << rules, appVars >>

\* A step of the audio server, seen by no handler.  The streams of the model
\* change between handlers and ticks, and stay as they are while a message box
\* is open.
StreamStep ==
    /\ RoutingRuns
    /\ ~dialog.open
    /\ moves' = << >>
    /\ seen' = NoPass
    /\ last_action' = "env"
    /\ in_flight' = Suspended
    /\ UNCHANGED << rules, manual_overrides, last_snapshot, hidden_streams,
                    devices_list, pactl_faults, routing_file, dialog, appVars >>

\* The audio server: a stream starts, on the default sink.
StreamAppears(id) ==
    /\ id \notin DOMAIN sink_inputs
    /\ sink_inputs' = [ x \in DOMAIN sink_inputs \cup {id} |->
                          IF x = id THEN IndexOfSink(DefaultSink) ELSE sink_inputs[x] ]
    /\ StreamStep

\* The audio server: a stream ends.
StreamDisappears(id) ==
    /\ id \in DOMAIN sink_inputs
    /\ sink_inputs' = [ x \in DOMAIN sink_inputs \ {id} |-> sink_inputs[x] ]
    /\ StreamStep

\* ------------------------------------------------------------------------
\* The start of the programs: the bucket sinks are created when absent
\* ------------------------------------------------------------------------

\* sync_names of ensure_pipewire_syncs_exist (app.py line 16); src/testapp.py
\* loops over CUSTOM_SINKS.
sync_names == <<"Game", "Chat", "Media", "Aux">>

\* `pactl list short sinks` and the parse of both programs: one line of
\* tab-separated fields per sink, index first and name second; the names are
\* parts[1] of the lines with more than one field.
ListedSinks(present, fail) ==
    [ ok |-> "list" \notin fail,
      names |-> IF "list" \in fail THEN {}
                ELSE { parts[2] : parts \in { ln \in { << IndexOfSink(n), n, "module-null-sink.c" >> :
                                                         n \in present \cup { DefaultSink } } :
                                                Len(ln) > 1 } } ]

\* for name in names: if name not in existing: pactl load-module
\* module-null-sink sink_name=name.  A call that fails is reported and the loop
\* goes on.
LoadNullSinks(names, existing, fail) ==
    [ k \in 1..Len(SelectSeq(names, LAMBDA n : n \notin existing)) |->
        [sink |-> SelectSeq(names, LAMBDA n : n \notin existing)[k],
         ok |-> SelectSeq(names, LAMBDA n : n \notin existing)[k] \notin fail] ]

\* ensure_pipewire_syncs_exist (app.py): the listing and the loop sit in one
\* try block, so a failing listing ends the step with no call.
ensure_pipewire_syncs_exist(present, fail) ==
    [ by |-> "app", listed |-> ListedSinks(present, fail).ok,
      loads |-> IF ListedSinks(present, fail).ok
                THEN LoadNullSinks(sync_names, ListedSinks(present, fail).names, fail)
                ELSE << >> ]

\* ensure_custom_sinks (testapp.py): get_sinks returns [] when the listing
\* fails, and the loop runs on it.
ensure_custom_sinks(present, fail) ==
    [ by |-> "testapp", listed |-> ListedSinks(present, fail).ok,
      loads |-> LoadNullSinks(CUSTOM_SINKS, ListedSinks(present, fail).names, fail) ]

\* No ensure step has run.
NoEnsure == [by |-> "", listed |-> FALSE, loads |-> << >>]

\* Neither program is being started.
EnsureAtRest == server_sinks = {} /\ ensure = NoEnsure

\* A program is started and makes sure of the bucket sinks: the listing or one
\* of the load-module calls may fail; a sink whose call succeeds exists.
Ensure(by) ==
    \E fail \in { {} } \cup { { c } : c \in { "list" } \cup Range(sync_names) } :
    \E e \in { IF by = "app" THEN ensure_pipewire_syncs_exist(server_sinks, fail)
                ELSE ensure_custom_sinks(server_sinks, fail) } :
        /\ ensure' = e
        /\ server_sinks' = server_sinks \cup { e.loads[k].sink : k \in { j \in 1..Len(e.loads) : e.loads[j].ok } }
        /\ UNCHANGED << appVars, routeVars, loopVars >>

\* ------------------------------------------------------------------------
\* MainWindow: the loopbacks from the bucket sinks to the default sink
\* ------------------------------------------------------------------------

\* The sinks the Outputs panel lists: hidden_sinks (the bucket sinks) are left
\* out (lines 602-603).
HardwareSinks == { "Speakers", "Headphones" }

\* A module index as a Python int, and as the string json.dump and `pactl
\* list short modules` write for it.
IntKey(n) == [type |-> "int", value |-> n]
StrKey(n) == [type |-> "str", value |-> n]

\* str(mod_id), int(out.strip())
str(mod_id) == StrKey(mod_id.value)
int(out) == IntKey(out.value)

\* f'{custom_sink}.monitor'
MonitorOf(custom_sink) == << custom_sink, "monitor" >>

\* state without 'default_sink' and 'loopbacks'
NoLoopState ==
    [default_sink |-> PyNone, has_loopbacks |-> FALSE,
     loopbacks |-> [ c \in Range(CUSTOM_SINKS) |-> {} ]]

\* json.dump(self.state, f): the int keys of the loopbacks become strings.
json_dump_loopbacks(st) ==
    [ kind |-> "object", default_sink |-> st.default_sink, has_loopbacks |-> st.has_loopbacks,
      loopbacks |-> [ c \in Range(CUSTOM_SINKS) |->
                        { [key |-> str(t.key), sink |-> t.sink] : t \in st.loopbacks[c] } ] ]

\* load_state for the two keys: {} when there is no file.
load_loopbacks(file) ==
    IF file.kind = "missing" THEN NoLoopState
    ELSE [default_sink |-> file.default_sink, has_loopbacks |-> file.has_loopbacks,
          loopbacks |-> file.loopbacks]

\* get_loaded_modules: parts[0] of every line of `pactl list short modules`,
\* none when the call fails.
get_loaded_modules(mods, fail) ==
    IF "list" \in fail THEN {} ELSE { parts[1] : parts \in { << StrKey(m.id), "module-loopback" >> : m \in mods } }

\* is_module_loaded: str(mod_id) in modules
is_module_loaded_as_is(mod_id, listed) == mod_id \in listed
is_module_loaded(mod_id, listed) == str(mod_id) \in listed

\* setup_custom_sink_loopbacks, lines 423-428: the indexes unload-module is
\* called with, the tracked ones that are listed.
Unloaded(st, listed) ==
    { t.key.value : t \in { u \in UNION { st.loopbacks[c] : c \in Range(CUSTOM_SINKS) } :
                               is_module_loaded(u.key, listed) } }

\* lines 429-439: one module-loopback per bucket sink, in the order of
\* CUSTOM_SINKS, from index `first` on; the call prints the index of the module.
LoadedLoopbacks(hardware_sink_name, first, fail) ==
    IF "load" \in fail THEN {}
    ELSE { [id |-> first + k - 1, source |-> MonitorOf(CUSTOM_SINKS[k]), sink |-> hardware_sink_name] :
             k \in 1..Len(CUSTOM_SINKS) }

\* setup_custom_sink_loopbacks: the server's modules and the tracked loopbacks
\* after it.  A failing unload-module leaves its module loaded; a failing
\* load-module prints nothing, int('') raises and nothing is tracked.
setup_custom_sink_loopbacks(st, mods, first, hardware_sink_name, fail) ==
    [ modules |-> { m \in mods : "unload" \in fail \/ m.id \notin Unloaded(st, get_loaded_modules(mods, fail)) }
                    \cup LoadedLoopbacks(hardware_sink_name, first, fail),
      next |-> first + Cardinality(LoadedLoopbacks(hardware_sink_name, first, fail)),
      state |-> [ st EXCEPT
                    !.has_loopbacks = TRUE,
                    !.loopbacks = [ c \in Range(CUSTOM_SINKS) |->
                        { [key |-> int(StrKey(m.id)), sink |-> m.sink] :
                            m \in { x \in LoadedLoopbacks(hardware_sink_name, first, fail) :
                                      x.source = MonitorOf(c) } } ] ],
      failed |-> \/ "list" \in fail
                 \/ "load" \in fail
                 \/ "unload" \in fail /\ Unloaded(st, get_loaded_modules(mods, fail)) # {} ]

\* The pactl calls of one handler that fail: none, or every call of one kind.
LoopFailChoices ==
    { {} } \cup (IF loop_last.faults < MaxFaults
                 THEN { { "list" }, { "unload" }, { "load" }, { "set-default" } }
                 ELSE {})

\* MainWindow runs.
LoopRuns == loop_last.op \notin { "off", "closed" } /\ UNCHANGED << appVars, routeVars, ensureVars >>

\* The handler ends: the server and the state are as the setup left them and
\* save_state has written the file.
AssignLoop(r, op, selected, failed) ==
    /\ modules' = r.modules
    /\ next_module' = r.next
    /\ loop_state' = r.state
    /\ loop_file' = json_dump_loopbacks(r.state)
    /\ loop_last' = [op |-> op, selected |-> selected,
                     faults |-> loop_last.faults + (IF failed THEN 1 ELSE 0)]

\* set_default_sink: the sink selected in the Outputs panel becomes the
\* default sink and the loopbacks are set up anew.  The refresh that ends the
\* handler finds no stream here.
SetDefaultSink(sink_name) ==
    /\ LoopRuns
    /\ next_module + Len(CUSTOM_SINKS) <= MaxSetups * Len(CUSTOM_SINKS) + 1
    /\ \E fail \in LoopFailChoices :
       \E r \in { setup_custom_sink_loopbacks([ loop_state EXCEPT !.default_sink = sink_name ],
                                              modules, next_module, sink_name, fail) } :
         /\ server_default' = (IF "set-default" \in fail THEN server_default ELSE sink_name)
         /\ AssignLoop(r, "set", sink_name, r.failed \/ "set-default" \in fail)

\* closeEvent: save_state, and the program ends.  The modules stay loaded.
CloseEvent ==
    /\ LoopRuns
    /\ loop_file' = json_dump_loopbacks(loop_state)
    /\ loop_last' = [ loop_last EXCEPT !.op = "closed" ]
    /\ UNCHANGED << modules, next_module, server_default, loop_state >>

\* MainWindow.__init__ on the file an earlier run left: load_state, then
\* restore_routing_state sets the stored default sink and, when the state has
\* 'loopbacks', sets the loopbacks up anew.
RestoreRoutingState ==
    /\ loop_last.op = "closed"
    /\ UNCHANGED << appVars, routeVars, ensureVars >>
    /\ \E loaded \in { load_loopbacks(loop_file) } :
         IF loaded.default_sink = PyNone
         THEN /\ loop_state' = loaded
              /\ loop_last' = [ loop_last EXCEPT !.op = "start" ]
              /\ UNCHANGED << modules, next_module, server_default, loop_file >>
         ELSE IF ~loaded.has_loopbacks
         THEN \E fail \in { {} } \cup { f \in { { "set-default" } } : loop_last.faults < MaxFaults } :
              /\ server_default' = (IF fail = {} THEN loaded.default_sink ELSE server_default)
              /\ loop_state' = loaded
              /\ loop_last' = [ loop_last EXCEPT !.op = "start",
                                                 !.faults = @ + (IF fail = {} THEN 0 ELSE 1) ]
              /\ UNCHANGED << modules, next_module, loop_file >>
         ELSE /\ next_module + Len(CUSTOM_SINKS) <= MaxSetups * Len(CUSTOM_SINKS) + 1
              /\ \E fail \in LoopFailChoices :
                 \E r \in { setup_custom_sink_loopbacks(loaded, modules, next_module,
                                                        loaded.default_sink, fail) } :
                   /\ server_default' = (IF "set-default" \in fail THEN server_default
                                         ELSE loaded.default_sink)
                   /\ AssignLoop(r, "restore", loop_last.selected, r.failed \/ "set-default" \in fail)

\* The audio server: one of its loopback modules is unloaded by someone else.
ModuleUnloaded(m) ==
    /\ m \in modules
    /\ modules' = modules \ { m }
    /\ UNCHANGED << next_module, server_default, loop_state, loop_file, loop_last,
                    appVars, routeVars, ensureVars >>

\* MainWindow is not running and has set no loopback up.
LoopAtRest ==
    /\ modules = {}
    /\ next_module = 1
    /\ server_default = DefaultSink
    /\ loop_state = NoLoopState
    /\ loop_file = [ json_dump_loopbacks(NoLoopState) EXCEPT !.kind = "missing" ]
    /\ loop_last = [op |-> "off", selected |-> PyNone, faults |-> 0]

\* ------------------------------------------------------------------------
\* The specifications
\* ------------------------------------------------------------------------

\* src/testapp.py is not running.
RoutingAtRest ==
    /\ sink_inputs = << >>
    /\ rules = << >>
    /\ manual_overrides = << >>
    /\ last_snapshot = << >>
    /\ hidden_streams = {}
    /\ devices_list = {}
    /\ moves = << >>
    /\ seen = NoPass
    /\ last_action = "off"
    /\ pactl_faults = 0
    /\ routing_file = RoutingFileMissing
    /\ dialog = NoDialog
    /\ in_flight = 0

\* src/app.py is not running.
AppAtRest ==
    /\ live = {}
    /\ links = {}
    /\ name_width = [ d \in DeviceNodes |-> LabelWidth - ElideMargin ]
    /\ device_ports = {}
    /\ active_ids = {}
    /\ heard = NothingHeard
    /\ label_locations = [ d \in DeviceNodes |-> NoEntry ]
    /\ label_map = {}
    /\ label_hidden = {}
    /\ hidden_labels = {}
    /\ bucket_labels = [ b \in Buckets |-> << >> ]
    /\ source_frame = {}
    /\ sync_metadata = [ b \in Buckets |-> None ]
    /\ bucket_enabled = {}
    /\ context_menu_open = FALSE
    /\ state_file = FileMissing
    /\ ops = << >>
    /\ planned = << >>
    /\ cycles = 0
    /\ last_write = "no"
    /\ last_handler = "off"
    /\ rerun = FALSE
    /\ faults = 0

\* DragDropApp (src/app.py) with its audio server
Init == InitApp /\ RoutingAtRest /\ EnsureAtRest /\ LoopAtRest
Next == NextApp
Spec == Init /\ [][Next]_vars

\* MainWindow (src/testapp.py) with its audio server
InitRoute == InitRouting /\ AppAtRest /\ EnsureAtRest /\ LoopAtRest
NextRoute ==
    \/ ConditionalRefresh
    \/ ConditionalRefreshHangs
    \/ DialogClose
    \/ \E app_name \in RuleApps, sink \in RuleSinks : AddRuleFromUi(app_name, sink)
    \/ \E row \in 1..MaxRules : RemoveSelectedRule(row)
    \/ \E id \in StreamIds, sink \in DropSinks : MoveSinkInput(id, sink)
    \/ \E id \in StreamIds : ResetManualOverride(id)
    \/ \E id \in StreamIds : StreamAppears(id)
    \/ \E id \in StreamIds : StreamDisappears(id)
SpecRouting == InitRoute /\ [][NextRoute]_vars

\* The refresh timer of MainWindow fires every 2 s for as long as the program
\* runs: conditional_refresh is never postponed forever.
SpecRoutingFair == SpecRouting /\ WF_vars(ConditionalRefresh)

\* MainWindow left to itself: the streams come and go and the timer fires,
\* the user closes the message boxes and does nothing else.
NextUnattended ==
    \/ ConditionalRefresh
    \/ ConditionalRefreshHangs
    \/ DialogClose
    \/ \E id \in StreamIds : StreamAppears(id)
    \/ \E id \in StreamIds : StreamDisappears(id)
SpecUnattendedFair ==
    InitRoute /\ [][NextUnattended]_vars /\ WF_vars(ConditionalRefresh)

\* Either program and its state file.  The link calls of DragDropApp all
\* succeed here: what it writes to bucket_state.json does not depend on them.
InitPersist ==
    (InitAppWith(MaxFaults, FittingWidths) /\ RoutingAtRest /\ EnsureAtRest /\ LoopAtRest)
      \/ InitRoute
NextPersist == NextApp \/ NextRoute
SpecPersist == InitPersist /\ [][NextPersist]_vars

\* DragDropApp with device names that do not fit their labels.
InitElided ==
    InitAppWith(0, ElidedWidths) /\ RoutingAtRest /\ EnsureAtRest /\ LoopAtRest
SpecElided == InitElided /\ [][NextApp]_vars

\* The start of either program on an audio server that has some of the bucket
\* sinks, again and again.
InitEnsure ==
    /\ server_sinks \in SUBSET Range(sync_names)
    /\ ensure = NoEnsure
    /\ AppAtRest
    /\ RoutingAtRest
    /\ LoopAtRest
NextEnsure == \E by \in { "app", "testapp" } : Ensure(by)
SpecEnsure == InitEnsure /\ [][NextEnsure]_vars

\* MainWindow started on a file without loopbacks (there is none, or it holds
\* a default sink only), the user selecting default sinks, closing and
\* starting the program again.
InitLoopbacks ==
    /\ AppAtRest /\ RoutingAtRest /\ EnsureAtRest
    /\ modules = {}
    /\ next_module = 1
    /\ \E stored \in { PyNone } \cup HardwareSinks :
         /\ loop_state = [ NoLoopState EXCEPT !.default_sink = stored ]
         /\ loop_file = [ json_dump_loopbacks(loop_state) EXCEPT
                            !.kind = IF stored = PyNone THEN "missing" ELSE "object" ]
         /\ server_default = (IF stored = PyNone THEN DefaultSink ELSE stored)
         /\ loop_last = [op |-> "start", selected |-> stored, faults |-> 0]
NextLoopbacks ==
    \/ \E sink_name \in HardwareSinks : SetDefaultSink(sink_name)
    \/ CloseEvent
    \/ RestoreRoutingState
    \/ \E m \in modules : ModuleUnloaded(m)
SpecLoopbacks == InitLoopbacks /\ [][NextLoopbacks]_vars

\* ------------------------------------------------------------------------
\* Properties
\* ------------------------------------------------------------------------

\* The channel suffix of a port key: the token after the last '_' of the
\* port name, or the whole name when it has no '_'.
ChannelOf(key) == key[2][Len(key[2])]

\* The ports of the model's nodes by direction.
OutputKeys == UNION { { Key(n, p.port) : p \in { q \in Range(PortsOf(n)) : q.type = "output" } } : n \in Nodes }
InputKeys == UNION { { Key(n, p.port) : p \in { q \in Range(PortsOf(n)) : q.type = "input" } } : n \in Nodes }

\* A connect or disconnect (the listing is a query, not an operation).
IsLinkOp(o) == o.op \in { "connect", "disconnect" }

\* The call has a port of bucket sink b at one of its ends.
Touches(o, b) == o.src[1] = b \/ o.dst[1] = b

LinkOps(opseq) == { i \in 1..Len(opseq) : IsLinkOp(opseq[i]) }

\* C1: a refresh cycle that runs right after a refresh cycle of the same
\* snapshot whose calls all succeeded, with no change of the audio server or
\* of the assignments in between, issues no connect or disconnect.
C1_SecondRunIssuesNothing ==
    (last_handler = "refresh" /\ rerun) => LinkOps(ops) = {}

\* The desired link set derived from the assignments: a device in Outputs is
\* fed by the monitor ports of the bucket sinks, a device in a sync bucket
\* feeds that bucket's playback ports, channel by channel.
Desired(l) ==
    /\ ChannelOf(l[1]) = ChannelOf(l[2])
    /\ \/ /\ l[1][1] \in SYNC_DEVICES /\ l[1][2][1] = "monitor"
          /\ l[2][1] \in DeviceNodes /\ l[2][2][1] = "playback"
          /\ label_locations[l[2][1]] = "Outputs"
       \/ /\ l[1][1] \in DeviceNodes /\ l[1][2][1] = "output"
          /\ l[2][1] \in SYNC_DEVICES /\ l[2][2][1] = "playback"
          /\ label_locations[l[1][1]] = l[2][1]

\* The link has a port of an available bucket sink at one of its ends.
OnAvailableBucket(l) ==
    \E b \in SYNC_DEVICES : sync_metadata[b] # None /\ (l[1][1] = b \/ l[2][1] = b)

\* C2: after a refresh cycle whose calls all succeeded, every link on a port
\* of an available bucket sink is in the desired link set of the current
\* assignments.
C2_NoStaleLinkAfterRefresh ==
    (last_handler = "refresh" /\ AllOk(ops)) =>
        \A l \in links : OnAvailableBucket(l) => Desired(l)

\* C4: every connect issued joins an output port and an input port of the
\* same channel suffix, and so does every pair of a desired_links set.
C4_NoCrossChannel ==
    /\ \A i \in 1..Len(ops) :
         ops[i].op = "connect" =>
            /\ ops[i].src \in OutputKeys
            /\ ops[i].dst \in InputKeys
            /\ ChannelOf(ops[i].src) = ChannelOf(ops[i].dst)
    /\ \A b \in SYNC_DEVICES, d \in label_map :
         sync_metadata[b] # None =>
            \A pr \in desired_links(b, sync_metadata[b], d) : ChannelOf(pr[1]) = ChannelOf(pr[2])

\* C4 happens: one refresh cycle connected a bucket monitor to an Outputs
\* device and a device in a sync bucket to the bucket's playback port.
C4_Witness ==
    /\ last_handler = "refresh"
    /\ \E i \in 1..Len(ops) : ops[i].op = "connect" /\ ops[i].ok /\ ops[i].dst[1] = "Headset"
    /\ \E i \in 1..Len(ops) : ops[i].op = "connect" /\ ops[i].ok /\ ops[i].src[1] = "Firefox"

\* C5: within one refresh cycle, for every bucket, no disconnect on the
\* bucket's ports is attempted after a connect on the bucket's ports.
C5_DisconnectsBeforeConnects ==
    last_handler = "refresh" =>
        \A b \in SYNC_DEVICES : \A i, j \in 1..Len(ops) :
            (i < j /\ ops[i].op = "connect" /\ Touches(ops[i], b))
                => ~(ops[j].op = "disconnect" /\ Touches(ops[j], b))

\* The connects of a call sequence, as (source, destination) pairs.
Connects(opseq) == { << opseq[i].src, opseq[i].dst >> : i \in { j \in 1..Len(opseq) : opseq[j].op = "connect" } }

\* One connect per channel suffix common to the monitor ports of bucket b and
\* the playback ports of device d: (b:monitor_s -> d:playback_s).
MonitorToPlayback(b, d) ==
    { pr \in { << Key(b, m.port), Key(d, p.port) >> :
                  m \in Range(PortsWith(PortsOf(b), "output", "monitor")),
                  p \in Range(PortsWith(PortsOf(d), "input", "playback")) } :
        ChannelOf(pr[1]) = ChannelOf(pr[2]) }

C10_AbsentSinkUntouched ==
    last_handler = "refresh" =>
        \A b \in SYNC_DEVICES :
            b \notin device_ports =>
                /\ b \notin bucket_enabled
                /\ sync_metadata[b] = None
                /\ \A i \in LinkOps(ops) : ~Touches(ops[i], b)

\* C10 happens: Firefox is assigned to Chat, Chat's sink is absent from the
\* snapshot, and the refresh cycle did issue calls for the other buckets.
C10_Witness ==
    /\ last_handler = "refresh"
    /\ "Chat" \notin device_ports
    /\ label_locations["Firefox"] = "Chat"
    /\ "Firefox" \in Range(bucket_labels["Chat"])
    /\ LinkOps(ops) # {}

\* C3: once only the refresh timer acts (the streams stay as they are and
\* the user does nothing), there is a cycle after which no move-sink-input
\* is issued any more.
C3_NoFlapping ==
    (<>[][ConditionalRefresh]_vars) => <>[](moves = << >>)

\* C6: while no pactl call has failed, no rule-driven move is issued for a
\* stream that sits on the sink its manual override names.
C6_OverrideSuppressesRules ==
    pactl_faults = 0 =>
        \A i \in 1..Len(moves) :
            moves[i].rule # 0 => moves[i].override # moves[i].at

\* C7: a rule-driven move comes from the first rule, in list order, that
\* matches the stream's application name.
C7_FirstMatchWins ==
    \A i \in 1..Len(moves) :
        moves[i].rule # 0 =>
            \A r \in 1..(moves[i].rule - 1) :
                Lower(rules[r].app_name) # Lower(AppOf(moves[i].stream))

\* The name of the sink with the given index in a fetched sink list, or
\* 'Unknown' when the list has no such index.
ListedName(sinks, sink_index) ==
    LET hit == { k \in 1..Len(sinks) : sinks[k].index = sink_index }
    IN  IF hit = {} THEN "Unknown" ELSE sinks[CHOOSE k \in hit : TRUE].name

\* The rule-driven moves of the last handler for stream id.
RuleMoves(id) == { i \in 1..Len(moves) : moves[i].rule # 0 /\ moves[i].stream = id }

\* The rules whose app_name equals the application name, case-insensitively.
Matching(app_name) == { r \in 1..Len(rules) : Lower(rules[r].app_name) = Lower(app_name) }

\* C8: in an apply_routing_rules pass, a stream that is not hidden, has no
\* manual override and is matched by exactly one rule gets exactly one move,
\* to the rule's sink, when its current sink name differs from the rule's
\* sink, and no move when it sits on the rule's sink.
C8_SingleRuleMove ==
    seen.ran =>
        \A k \in 1..Len(seen.inputs) :
            ( /\ seen.inputs[k].index \notin seen.hidden
              /\ seen.inputs[k].index \notin DOMAIN manual_overrides
              /\ Cardinality(Matching(seen.inputs[k].app_name)) = 1 )
            => \A r \in Matching(seen.inputs[k].app_name) :
                 IF ListedName(seen.sinks, seen.inputs[k].sink) # rules[r].sink
                 THEN /\ Cardinality(RuleMoves(seen.inputs[k].index)) = 1
                      /\ \A i \in RuleMoves(seen.inputs[k].index) : moves[i].sink = rules[r].sink
                 ELSE RuleMoves(seen.inputs[k].index) = {}

\* C8 happens: the Firefox stream, with no override and one matching rule,
\* was moved from another sink to the rule's sink by one move.
C8_Witness ==
    /\ seen.ran
    /\ "41" \in DOMAIN sink_inputs
    /\ "41" \notin DOMAIN manual_overrides
    /\ Cardinality(Matching("Firefox")) = 1
    /\ Cardinality(RuleMoves("41")) = 1
    /\ \A i \in RuleMoves("41") : moves[i].ok /\ moves[i].at # moves[i].sink

\* C11: no step assigns a device to a sync bucket that the last refresh left
\* unavailable, and a drop that such a bucket ignores leaves _label_locations,
\* the state file and the links as they were, and issues no call.
C11_UnavailableBucketBlocksDrop ==
    [][ /\ \A d \in DeviceNodes :
             label_locations'[d] # label_locations[d]
                => label_locations'[d] \notin (SYNC_DEVICES \ bucket_enabled)
        /\ last_handler' = "drop_ignored"
             => /\ UNCHANGED << label_locations, state_file, links >>
                /\ ops' = << >>
      ]_vars

\* C11 happens: a drop was ignored while Chat's sink was absent at the last
\* refresh, with links and a written state file at stake.
C11_Witness ==
    /\ last_handler = "drop_ignored"
    /\ "Chat" \notin bucket_enabled
    /\ links # {}
    /\ state_file.kind = "object"

\* Two calls are the same operation on the same ports.
SameCall(x, y) == x.op = y.op /\ x.src = y.src /\ x.dst = y.dst

\* Every call of a, in order, is among the calls of b.
RECURSIVE Embeds(_, _)
Embeds(a, b) ==
    IF a = << >> THEN TRUE
    ELSE IF b = << >> THEN FALSE
    ELSE IF SameCall(Head(a), Head(b)) THEN Embeds(Tail(a), Tail(b))
    ELSE Embeds(a, Tail(b))

\* C12: when a connect or disconnect of a handler fails, every call the
\* handler issues when none fails is still attempted, in the same order.
C12_FailureDoesNotAbortBatch ==
    (\E i \in LinkOps(ops) : ~ops[i].ok) => Embeds(planned, ops)

\* C12 happens: a disconnect failed and a connect was attempted, and
\* succeeded, after it.
C12_Witness ==
    \E i, j \in 1..Len(ops) :
        /\ i < j
        /\ ops[i].op = "disconnect" /\ ~ops[i].ok
        /\ ops[j].op = "connect" /\ ops[j].ok

\* C15: the triggers of one handler (the signals of one _poll_once, a timer
\* tick) cause at most one refresh cycle.
C15_TriggersCoalesced == cycles <= 1

\* C17: dropping a device on the bucket it is already assigned to does not
\* write the state file again with the content it already has.
C17_SameValueSetIsNoOp ==
    [][ (last_handler' = "drop" /\ label_locations' = label_locations)
          => last_write' # "same" ]_vars

\* The containers that hold the label of device d: the Available frame, the
\* buckets, the hidden set.
Containers(d) ==
    { b \in Buckets : d \in Range(bucket_labels[b]) }
        \cup (IF d \in source_frame THEN { "available" } ELSE {})
        \cup (IF d \in label_hidden /\ d \in hidden_labels THEN { "hidden" } ELSE {})

\* How many times the label of d is in the layout of bucket b.
TimesIn(b, d) == Cardinality({ i \in 1..Len(bucket_labels[b]) : bucket_labels[b][i] = d })

\* C19: after a refresh cycle every device of the snapshot that is not a
\* bucket sink has a label, and the label is in exactly one container, the
\* one _label_locations.get(device, 'available') names, once.
C19_OneContainerPerDevice ==
    last_handler = "refresh" =>
        \A d \in device_ports \ SYNC_DEVICES :
            /\ d \in label_map
            /\ Containers(d) = { IF label_locations[d] = NoEntry THEN "available"
                                 ELSE label_locations[d] }
            /\ \A b \in Buckets : TimesIn(b, d) <= 1
            /\ d \in label_hidden <=> d \in hidden_labels

\* C19 happens: after a refresh cycle one device is in a bucket, as stored,
\* and the other, with no stored entry, is in the Available frame.
C19_Witness ==
    /\ last_handler = "refresh"
    /\ DeviceNodes \subseteq device_ports
    /\ label_locations["Headset"] = "Outputs"
    /\ label_locations["Firefox"] = NoEntry
    /\ Containers("Headset") = { "Outputs" }
    /\ Containers("Firefox") = { "available" }

\* C20: whatever bucket_state.json holds that is not an object of
\* assignments (no file, text that is not JSON, JSON that is not an object),
\* the program starts, with no assignment.
C20_LoadDegradesToEmpty ==
    state_file.kind # "object" =>
        /\ last_handler # "crashed"
        /\ label_locations = NoLocations

\* C13: a rule-driven move that failed is issued again by a later timer tick,
\* until a move of that stream by a rule succeeds or no rule asks for a move of
\* the stream any more.
MoveWanted(id) ==
    /\ id \in DOMAIN sink_inputs
    /\ id \notin update_hidden_streams(get_sink_inputs(sink_inputs, {}))
    /\ \E r \in 1..Len(rules) :
          /\ Lower(rules[r].app_name) = Lower(AppOf(id))
          /\ rules[r].sink # SinkOrder[sink_inputs[id]]
RuleMoveFailed(id) ==
    \E i \in 1..Len(moves) : moves[i].stream = id /\ moves[i].rule # 0 /\ ~moves[i].ok
RuleMoveDone(id) ==
    \E i \in 1..Len(moves) : moves[i].stream = id /\ moves[i].rule # 0 /\ moves[i].ok
C13_FailedMoveRetried ==
    \A id \in StreamIds : RuleMoveFailed(id) ~> (RuleMoveDone(id) \/ ~MoveWanted(id))

\* C14: at most one refresh cycle is in flight at any time: none starts while
\* another one has not ended.
C14_OneCycleInFlight == in_flight <= 1

\* C16: the last successful move of a stream by a rule leaves the stream with
\* a manual override that names the sink of that move.
LastRuleMove(i) ==
    /\ moves[i].rule # 0
    /\ moves[i].ok
    /\ \A j \in (i + 1)..Len(moves) : moves[j].stream # moves[i].stream
C16_RuleMoveAddsOverride ==
    \A i \in 1..Len(moves) :
        LastRuleMove(i) =>
            /\ moves[i].stream \in DOMAIN manual_overrides
            /\ manual_overrides[moves[i].stream] = moves[i].sink

LiveKeys == { k \in OutputKeys \cup InputKeys : k[1] \in live }

\* The links (b:monitor_s -> d:playback_s) of equal channel suffix s.
FanOut(b, d) ==
    { pr \in OutputKeys \X InputKeys :
        /\ pr[1][1] = b /\ pr[1][2][1] = "monitor"
        /\ pr[2][1] = d /\ pr[2][2][1] = "playback"
        /\ ChannelOf(pr[1]) = ChannelOf(pr[2]) }

\* C25: after a refresh cycle whose connects all succeeded, every device in
\* the Outputs bucket is linked from the monitor port of every available sync
\* bucket on every channel suffix both have, where both ports are live.
C25_OutputsFanOutComplete ==
    (last_handler = "refresh" /\ \A i \in 1..Len(ops) : ops[i].op = "connect" => ops[i].ok)
      => \A d \in Range(bucket_labels["Outputs"]), b \in SYNC_DEVICES :
            sync_metadata[b] # None
              => \A pr \in FanOut(b, d) :
                    (pr[1] \in LiveKeys /\ pr[2] \in LiveKeys) => pr \in links

\* C25 happens: after a refresh cycle Headset sits in Outputs and both live
\* bucket sinks feed both of its channels.
C25_Witness ==
    /\ last_handler = "refresh"
    /\ \A i \in 1..Len(ops) : ops[i].ok
    /\ "Headset" \in Range(bucket_labels["Outputs"])
    /\ { "Game", "Chat" } \subseteq live
    /\ sync_metadata["Game"] # None /\ sync_metadata["Chat"] # None
    /\ FanOut("Game", "Headset") \cup FanOut("Chat", "Headset") \subseteq links
    /\ Cardinality(FanOut("Game", "Headset") \cup FanOut("Chat", "Headset")) = 4

\* The links (d:output_s -> b:playback_s) of equal channel suffix s.
FanIn(d, b) ==
    { pr \in OutputKeys \X InputKeys :
        /\ pr[1][1] = d /\ pr[1][2][1] = "output"
        /\ pr[2][1] = b /\ pr[2][2][1] = "playback"
        /\ ChannelOf(pr[1]) = ChannelOf(pr[2]) }

\* C26: when device d is dropped on an available sync bucket b and the link
\* listing and every disconnect and connect of the drop succeed, the links
\* that leave d's output_ ports are exactly (d:output_s -> b:playback_s) for
\* the channel suffixes s both have, where both ports are live.
C26_LinkItemResultIsDesired ==
    [][ \A d \in DeviceNodes, b \in SYNC_DEVICES :
          ( /\ last_handler' = "drop"
            /\ label_locations[d] # b
            /\ label_locations'[d] = b
            /\ \E i \in 1..Len(ops') : ops'[i].op = "list"
            /\ \A i \in 1..Len(ops') : ops'[i].ok )
          => { l \in links' : l[1][1] = d /\ l[1][2][1] = "output" }
                = { pr \in FanIn(d, b) : pr[1] \in LiveKeys /\ pr[2] \in LiveKeys } ]_vars

\* The links from a monitor_ port of an available sync bucket to a playback_
\* port of device d, in link set lk.
OutputLinks(lk, d) ==
    { l \in lk : /\ l[1][1] \in SYNC_DEVICES /\ sync_metadata[l[1][1]] # None
                 /\ l[1][2][1] = "monitor"
                 /\ l[2][1] = d /\ l[2][2][1] = "playback" }

\* C27: when a device recorded in Outputs is dropped on the Available frame,
\* its stored location becomes 'available' and, when the listing and the
\* disconnects of the drop succeed, no link from a monitor_ port of an
\* available sync bucket to one of its playback_ ports is left.
C27_ReturnRemovesOutputLinks ==
    [][ \A d \in DeviceNodes :
          (last_handler' = "return" /\ label_locations[d] = "Outputs"
             /\ label_locations'[d] # "Outputs")
          => /\ label_locations'[d] = "available"
             /\ (\A i \in 1..Len(ops') : ops'[i].ok) => OutputLinks(links', d) = {} ]_vars

\* C27 happens: Headset came back from Outputs and the links that fed it were
\* disconnected.
C27_Witness ==
    /\ last_handler = "return"
    /\ label_locations["Headset"] = "available"
    /\ \E i \in 1..Len(ops) :
          ops[i].op = "disconnect" /\ ops[i].ok /\ ops[i].dst[1] = "Headset"
    /\ OutputLinks(links, "Headset") = {}

\* C28: after a refresh cycle whose calls all succeeded, no device has a link
\* from one of its output_ ports to a playback_ port of a sync bucket it is
\* not assigned to.
C28_NoLinkToFormerBucket ==
    (last_handler = "refresh" /\ \A i \in 1..Len(ops) : ops[i].ok)
      => \A d \in DeviceNodes, b \in SYNC_DEVICES :
            label_locations[d] # b
              => \A l \in links :
                    ~( /\ l[1][1] = d /\ l[1][2][1] = "output"
                       /\ l[2][1] = b /\ l[2][2][1] = "playback" )

\* Where the refresh that ends the step left the label of device d: in the
\* container its stored location names, and in no other.
PlacedBack(d) ==
    LET location == IF label_locations'[d] = "<no entry>" THEN "available"
                    ELSE label_locations'[d]
        holders == { b \in DOMAIN bucket_labels' : d \in { bucket_labels'[b][i] : i \in 1..Len(bucket_labels'[b]) } }
    IN  CASE location = "hidden" ->
               d \in hidden_labels' /\ d \notin source_frame' /\ holders = {}
          [] location = "available" ->
               d \in source_frame' /\ d \notin hidden_labels' /\ holders = {}
          [] OTHER ->
               holders = { location } /\ d \notin source_frame' /\ d \notin hidden_labels'

\* The links the stored location of device d asks for exist after the step:
\* from every available bucket's monitor ports when it is in Outputs, to the
\* bucket's playback ports when it is in an available sync bucket.
Relinked(d) ==
    /\ label_locations'[d] = "Outputs"
         => \A b \in SYNC_DEVICES :
              sync_metadata'[b] # << >>
                => \A pr \in FanOut(b, d) :
                     (pr[1] \in LiveKeys /\ pr[2] \in LiveKeys) => pr \in links'
    /\ (label_locations'[d] \in SYNC_DEVICES /\ sync_metadata'[label_locations'[d]] # << >>)
         => \A pr \in FanIn(d, label_locations'[d]) :
              (pr[1] \in LiveKeys /\ pr[2] \in LiveKeys) => pr \in links'

\* C31: a refresh cycle, run or skipped, leaves the stored assignments as
\* they were, and a device whose label was gone and comes back in a refresh
\* whose calls all succeed is put in the container its stored location names
\* and gets the links of that location.
C31_RefreshKeepsAssignments ==
    [][ (last_handler' \in { "refresh", "refresh_skipped" })
          => /\ label_locations' = label_locations
             /\ \A d \in DeviceNodes :
                  ( /\ last_handler' = "refresh"
                    /\ d \notin label_map /\ d \in label_map'
                    /\ \A i \in 1..Len(ops') : ops'[i].ok )
                  => PlacedBack(d) /\ Relinked(d) ]_vars

\* The rules that match the application of stream id.
RulesFor(id) == { r \in 1..Len(rules) : Lower(rules[r].app_name) = Lower(AppOf(id)) }

\* The rule list holds one rule per application.
OneRulePerApp ==
    \A r1, r2 \in 1..Len(rules) :
        Lower(rules[r1].app_name) = Lower(rules[r2].app_name) => r1 = r2

\* Stream id is alive, is not one of the hidden loopback streams, and a rule
\* matches its application name.
AwaitsRouting(id) ==
    /\ id \in DOMAIN sink_inputs
    /\ Lower(AppOf(id)) \notin { "pipewire", "pulseaudio" }
    /\ OneRulePerApp
    /\ RulesFor(id) # {}

\* Stream id sits on the sink of the rule that matches it.
OnRuleSink(id) ==
    /\ id \in DOMAIN sink_inputs
    /\ \E r \in RulesFor(id) : SinkOrder[sink_inputs[id]] = rules[r].sink

\* C34: with one rule per application and while no pactl call has failed, a
\* stream that is alive, not hidden and matched by a rule is eventually on the
\* sink of that rule, unless it ends, a pactl call fails or the user acts in
\* the meantime.
C34_EventualRouting ==
    \A id \in StreamIds :
        (AwaitsRouting(id) /\ pactl_faults = 0)
          ~> ( \/ OnRuleSink(id)
               \/ id \notin DOMAIN sink_inputs
               \/ pactl_faults # 0
               \/ last_action \in { "add_rule", "remove_rule", "move", "reset" } )

C33_SignalsAlternate ==
    [][ /\ \A k \in OutputKeys :
             /\ heard'[k] \in { "idle", "added" }
             /\ heard'[k] = "added" <=> k \in active_ids'
        /\ (heard' # heard \/ active_ids' # active_ids)
             => active_ids' = { k \in OutputKeys : k[1] \in live } ]_vars

\* C33 happens: a poll has found the ports of Chat gone and has emitted one
\* stream_removed for each of them.
C33_Witness ==
    /\ last_handler = "refresh"
    /\ cycles = 2
    /\ "Chat" \notin live
    /\ \A k \in OutputKeys : k[1] = "Chat" => heard[k] = "idle" /\ k \notin active_ids
    /\ \A k \in OutputKeys : k[1] \in live => heard[k] = "added" /\ k \in active_ids

\* The loopback modules that read the monitor of bucket sink c.
LoopbacksOf(c) == { m \in modules : m.source = << c, "monitor" >> }

\* C32: while no pactl call has failed, after every set_default_sink and
\* every restart each bucket sink has at most one loopback module, that
\* module feeds the sink selected last, and its index is the one tracked in
\* state['loopbacks'] for the bucket sink.
C32_OneLoopbackPerSink ==
    loop_last.faults = 0
      => \A c \in { "Game", "Media", "Chat", "Aux" } :
            /\ Cardinality(LoopbacksOf(c)) <= 1
            /\ \A m \in LoopbacksOf(c) :
                 /\ m.sink = loop_last.selected
                 /\ { t.key.value : t \in loop_state.loopbacks[c] } = { m.id }

\* C32 happens: the program was started again on the file it wrote, after two
\* selections, and every bucket sink has the one loopback of the restart.
C32_Witness ==
    /\ loop_last.op = "restore"
    /\ loop_last.faults = 0
    /\ next_module = 13
    /\ \A c \in { "Game", "Media", "Chat", "Aux" } :
          /\ Cardinality(LoopbacksOf(c)) = 1
          /\ \A m \in LoopbacksOf(c) : m.id > 8 /\ m.sink = loop_last.selected

\* The sinks an ensure step asked to be created.
Loaded(e) == { e.loads[k].sink : k \in 1..Len(e.loads) }

\* C23: an ensure step issues a create for a bucket sink exactly when the
\* audio server has no sink of that name, never for one that exists, and an
\* ensure step that follows one whose listing and creates all succeeded issues
\* no create.
C23_CreateOnlyIfAbsent ==
    [][ ensure'.by # ""
          => /\ \A n \in Loaded(ensure') : n \notin server_sinks
             /\ ensure'.listed => Loaded(ensure') = Range(sync_names) \ server_sinks
             /\ ( /\ ensure.by # ""
                  /\ ensure.listed
                  /\ \A k \in 1..Len(ensure.loads) : ensure.loads[k].ok )
                => ensure'.loads = << >>
      ]_vars

\* A step of conditional_refresh itself: a handler that goes on after its
\* message box is closed changes `dialog`, a timer tick does not.
TickStep == last_action' = "tick" /\ (dialog.open => dialog' = dialog)

\* C24: a timer tick that finds the snapshot of the streams equal to
\* _last_snapshot runs no refresh pass, issues no move, and leaves the streams,
\* the rules, the overrides, the hidden streams, the panel, _last_snapshot and
\* routing_state.json as they are.
C24_EqualSnapshotDoesNothing ==
    [][ (TickStep /\ << sink_inputs >> = last_snapshot)
          => /\ ~seen'.ran
             /\ moves' = << >>
             /\ UNCHANGED << sink_inputs, rules, manual_overrides, hidden_streams,
                             devices_list, last_snapshot, routing_file, dialog >> ]_vars

\* C24 happens: the last tick found the snapshot unchanged and did nothing
\* although a rule asks for a move of the Firefox stream.
C24_Witness ==
    /\ last_action = "tick"
    /\ ~dialog.open
    /\ ~seen.ran
    /\ last_snapshot = << sink_inputs >>
    /\ "41" \in DOMAIN sink_inputs
    /\ \E r \in 1..Len(rules) :
          Lower(rules[r].app_name) = "firefox" /\ rules[r].sink # SinkOrder[sink_inputs["41"]]

\* The move by hand of the last handler failed, and its stream is id.
HandMoveFailed(mvs, id) ==
    /\ mvs # << >>
    /\ mvs[1].rule = 0
    /\ mvs[1].stream = id
    /\ ~mvs[1].ok

\* C29: a move by hand whose move-sink-input call fails records no manual
\* override: neither state['manual_overrides'] nor routing_state.json gains an
\* entry for the stream or gets another sink for it.
C29_FailedMoveRecordsNothing ==
    [][ \A id \in StreamIds :
          (last_action' = "move" /\ ~dialog.open /\ HandMoveFailed(moves', id))
            => /\ id \in DOMAIN manual_overrides'
                    => /\ id \in DOMAIN manual_overrides
                       /\ manual_overrides'[id] = manual_overrides[id]
               /\ id \in DOMAIN routing_file'.manual_overrides
                    => /\ id \in DOMAIN routing_file.manual_overrides
                       /\ routing_file'.manual_overrides[id] = routing_file.manual_overrides[id]
      ]_vars

\* C30: across a timer tick, the override of a stream that is alive before
\* and after stays in state['manual_overrides'] with its sink, also when a
\* pactl query of the tick fails.
C30_OverrideKeptWhileAlive ==
    [][ \A id \in StreamIds :
          ( /\ last_action' = "tick"
            /\ id \in DOMAIN manual_overrides
            /\ id \in DOMAIN sink_inputs
            /\ id \in DOMAIN sink_inputs' )
          => /\ id \in DOMAIN manual_overrides'
             /\ manual_overrides'[id] = manual_overrides[id] ]_vars

\* C21: no handler of either program ends by an exception of an external
\* command: when the audio system is unavailable (the command is missing or
\* fails) the read yields an empty result and the program goes on.
C21_UnavailableTolerated ==
    last_action # "raised" /\ last_handler # "raised"

\* C22: a handler that waits for an external command gets out of the wait:
\* the call is cut off and the poll loop goes on.
C22_HungCallCutOff ==
    (last_action = "hung") ~> (last_action # "hung")
====
